---- MODULE Spec2Model ----
(***************************************************************************)
(* Verification model of the listing replication service:                  *)
(*   - CircuitBreaker and RateLimiter      (services/ampre-api.js)          *)
(*   - replication_state / listings store  (db/index.js, db/schema.sql)     *)
(*   - replicateProperties / media passes  (services/sequential-replication)*)
(* Each component has its own specification over the shared variables; the  *)
(* variables a specification does not use keep their initial values.        *)
(***************************************************************************)
EXTENDS Integers, Sequences, FiniteSets, TLC

VARIABLES
    now,              \* Date.now(): milliseconds for the RateLimiter, clock ticks elsewhere
    \* ---- CircuitBreaker (one instance)
    cbState,          \* this.state
    failureCount,     \* this.failureCount
    successCount,     \* this.successCount
    lastFailureTime,  \* this.lastFailureTime (NoTime = null)
    cbInFlight,       \* number of execute() calls awaiting fn()
    cbLast,           \* history: what the latest execute() step did
    cbRun,            \* history: counted failures in a row (no success between)
    cbTrial,          \* history: successes recorded since the breaker last became HALF_OPEN
    cbTrials,         \* history: calls in flight that were admitted since then
    \* ---- one upstream request function running inside execute()
    rq,               \* pc, operation, retryCount, responses received, sleeps taken, result
    \* ---- the process run-optimized-replication.js
    run,              \* pc, command line, exit code, and the modes determineSyncMode chose
    \* ---- RateLimiter (one instance)
    tokens,           \* this.tokens, in thousandths of a token
    lastRefill,       \* this.lastRefill
    pendingRequests,  \* this.pendingRequests: queued callers, oldest first
    rlCalled,         \* history: callers that have called getToken
    rlQueued,         \* history: callers that were ever put on pendingRequests
    rlReleased,       \* history: callers whose promise has resolved
    rlAdded,          \* history: thousandths of a token added by refills
    rlMark,           \* history: <<time, number released>> at an observation point
    \* ---- storage (PostgreSQL tables)
    replication_state,\* table replication_state: rows in insertion (id) order
    listings,         \* table listings: id -> row
    listing_media,    \* table listing_media: media_key -> row
    \* ---- upstream API content and process configuration
    upstream,         \* the Property resource: ListingKey -> record
    us,               \* one record applied to listings once, then once more
    faults,           \* how many requests and statements have failed so far
    upstreamMedia,    \* the Media resource: ListingKey -> its items, in Order,MediaKey order
    maxRecords,       \* REPLICATION_MAX_RECORDS (0 = no budget)
    batchSize,        \* REPLICATION_BATCH_SIZE
    \* ---- replication cycle (runOptimizedReplication) and replicateProperties
    cy,               \* the cycle: pc, mode, number of cycles started
    rp,               \* replicateProperties: pc and local variables
    rpHist,           \* history of the current replicateProperties run
    md,               \* replicateMedia / updateMediaForProperties: pc and local variables
    mdTried,          \* history of the current media run: <<listing id, MediaKey>> ->
                      \*   how often its parent was looked up and its upsert attempted
    \* ---- concurrent callers of the checkpoint store (db/index.js)
    stPc,             \* per client: "idle", "get_selected", "upd_selected", "done"
    stCall,           \* per client: the arguments of its call
    stRows,           \* per client: result.rows of its SELECT
    stRet,            \* per client: the value getReplicationState returned
    stDelta           \* history: per resource, sum of the deltas of completed updates

cbVars == <<cbState, failureCount, successCount, lastFailureTime, cbInFlight, cbLast, cbRun,
           cbTrial, cbTrials>>
rlVars == <<tokens, lastRefill, pendingRequests, rlCalled, rlQueued, rlReleased, rlAdded, rlMark>>
stVars == <<stPc, stCall, stRows, stRet, stDelta>>
dbVars == <<replication_state, listings, listing_media>>
envVars == <<upstream, upstreamMedia, maxRecords, batchSize>>
runVars == <<cy, rp, rpHist>>
mdVars == <<md, mdTried>>
vars == <<now, cbVars, rlVars, dbVars, stVars, envVars, runVars, mdVars, faults, us, rq, run>>

Min(a, b) == IF a <= b THEN a ELSE b

NoTime == -1

\* JavaScript undefined / null (and SQL NULL) among numbers, and as array values.
Undef == -1
Null == -2
NoArray == << Undef >>
NullArray == << Null >>

(***************************************************************************)
(* CircuitBreaker                                                          *)
(***************************************************************************)
\* threshold (10) and resetTimeout (60000 ms) are scaled down: the breaker only
\* compares counts with the one and clock differences with the other.
Threshold == 3
ResetTimeout == 2
SuccessesToClose == 3
MaxInFlight == 4
MaxFailures == 5
MaxCbNow == 7

CbInit ==
    /\ cbState = "CLOSED"
    /\ failureCount = 0
    /\ successCount = 0
    /\ lastFailureTime = NoTime
    /\ cbInFlight = 0
    /\ cbLast = "none"
    /\ cbRun = 0
    /\ cbTrial = 0
    /\ cbTrials = 0

\* execute(), up to the await of fn(): the OPEN check.
CbResetElapsedAtTimeout == now >= lastFailureTime + ResetTimeout

CbResetElapsed == now > lastFailureTime + ResetTimeout

CbEnter ==
    /\ cbInFlight < MaxInFlight
    /\ IF cbState = "OPEN" /\ ~CbResetElapsed
         THEN /\ cbLast' = "rejected"
              /\ UNCHANGED <<cbState, cbInFlight, cbTrial, cbTrials>>
         ELSE /\ cbState' = IF cbState = "OPEN" THEN "HALF_OPEN" ELSE cbState
              /\ cbTrial' = IF cbState = "OPEN" THEN 0 ELSE cbTrial
              /\ cbTrials' = IF cbState = "OPEN" THEN 1
                             ELSE IF cbState = "HALF_OPEN" THEN cbTrials + 1
                             ELSE cbTrials
              /\ cbInFlight' = cbInFlight + 1
              /\ cbLast' = "admitted"
    /\ UNCHANGED <<failureCount, successCount, lastFailureTime, cbRun>>

\* The call that settles is one of the trial calls or one admitted earlier; no trial
\* call is counted once the breaker has left HALF_OPEN.
CbLeaving ==
    \E trial \in BOOLEAN :
        /\ IF trial THEN cbTrials > 0 ELSE cbInFlight > cbTrials
        /\ cbTrials' = IF cbState' = "HALF_OPEN"
                         THEN cbTrials - (IF trial THEN 1 ELSE 0)
                         ELSE 0

\* reset()
CbReset ==
    /\ cbState' = "CLOSED"
    /\ failureCount' = 0
    /\ successCount' = 0

\* execute(): fn() resolved.
CbSuccess ==
    /\ cbInFlight > 0
    /\ cbInFlight' = cbInFlight - 1
    /\ cbLast' = "success"
    /\ cbRun' = 0
    /\ cbTrial' = IF cbState = "HALF_OPEN" THEN cbTrial + 1 ELSE cbTrial
    /\ IF cbState = "HALF_OPEN"
         THEN IF successCount + 1 >= SuccessesToClose
                THEN CbReset
                ELSE /\ successCount' = successCount + 1
                     /\ UNCHANGED <<cbState, failureCount>>
         ELSE UNCHANGED <<cbState, failureCount, successCount>>
    /\ UNCHANGED lastFailureTime
    /\ CbLeaving

\* execute(): fn() rejected with a 429 response: passed through, not recorded.
CbRateLimited ==
    /\ cbInFlight > 0
    /\ cbInFlight' = cbInFlight - 1
    /\ cbLast' = "429"
    /\ UNCHANGED <<cbState, failureCount, successCount, lastFailureTime, cbRun, cbTrial>>
    /\ CbLeaving

\* The state after a recorded failure, given the count that includes it.
CbStateAfterFailure(state, count) ==
    IF (state = "CLOSED" /\ count >= Threshold) \/ state = "HALF_OPEN"
      THEN "OPEN"
      ELSE state

\* execute(): fn() rejected with any other error.
CbFailure ==
    /\ cbInFlight > 0
    /\ failureCount < MaxFailures
    /\ cbInFlight' = cbInFlight - 1
    /\ cbLast' = "failure"
    /\ cbRun' = Min(cbRun + 1, MaxFailures)
    /\ failureCount' = failureCount + 1
    /\ lastFailureTime' = now
    /\ cbState' = CbStateAfterFailure(cbState, failureCount + 1)
    /\ UNCHANGED <<successCount, cbTrial>>
    /\ CbLeaving

CbTick ==
    /\ now < MaxCbNow
    /\ now' = now + 1
    /\ UNCHANGED cbVars

(***************************************************************************)
(* RateLimiter                                                             *)
(***************************************************************************)
TokensPerSecond == 2
NumCallers == 4
MaxRlNow == 2000
Milli == 1000

Callers == 1 .. NumCallers
RlSteps == {250, 500}

RlInit ==
    /\ tokens = TokensPerSecond * Milli
    /\ lastRefill = 0
    /\ pendingRequests = << >>
    /\ rlCalled = {}
    /\ rlQueued = {}
    /\ rlReleased = {}
    /\ rlAdded = 0
    /\ rlMark = <<0, 0>>

\* Refill that forgets the Math.min cap of the bucket.
RefilledUncapped(t, elapsedMs) == t + elapsedMs * TokensPerSecond

\* refillTokens(): the bucket after adding the tokens of elapsedMs, capped.
Refilled(t, elapsedMs) == Min(TokensPerSecond * Milli, t + elapsedMs * TokensPerSecond)

\* refillTokens(): how many queued callers the while loop releases.
Drained(t, queued) == Min(t \div Milli, queued)

\* refillTokens() as a function of the limiter state: <<tokens, lastRefill, pending, released>>.
RefillTokens(t, last, pending, tnow) ==
    IF tnow - last > 0
      THEN LET t1 == Refilled(t, tnow - last)
               k  == Drained(t1, Len(pending))
           IN  [tokens |-> t1 - k * Milli,
                lastRefill |-> tnow,
                pending |-> SubSeq(pending, k + 1, Len(pending)),
                released |-> {pending[i] : i \in 1 .. k},
                added |-> t1 - t]
      ELSE [tokens |-> t, lastRefill |-> last, pending |-> pending,
            released |-> {}, added |-> 0]

\* getToken() by caller c; mark is the observer's choice to start a window here.
GetToken(c, mark) ==
    /\ c \notin rlCalled
    /\ rlCalled' = rlCalled \cup {c}
    /\ LET r == RefillTokens(tokens, lastRefill, pendingRequests, now)
       IN  /\ lastRefill' = r.lastRefill
           /\ rlAdded' = rlAdded + r.added
           /\ IF r.tokens >= Milli
                THEN /\ tokens' = r.tokens - Milli
                     /\ pendingRequests' = r.pending
                     /\ rlReleased' = rlReleased \cup r.released \cup {c}
                     /\ rlQueued' = rlQueued
                ELSE /\ tokens' = r.tokens
                     /\ pendingRequests' = Append(r.pending, c)
                     /\ rlReleased' = rlReleased \cup r.released
                     /\ rlQueued' = rlQueued \cup {c}
    /\ rlMark' = IF mark THEN <<now, Cardinality(rlReleased)>> ELSE rlMark
    /\ UNCHANGED now

RlCall == \E c \in Callers, mark \in BOOLEAN : GetToken(c, mark) /\ UNCHANGED cbVars

RlTick ==
    /\ \E d \in RlSteps :
         /\ now + d <= MaxRlNow
         /\ now' = now + d
    /\ UNCHANGED <<cbVars, rlVars>>


(***************************************************************************)
(* Checkpoint store: table replication_state and its two accessors.        *)
(* Timestamps are numbers in upstream order; 0 is '1970-01-01T00:00:00Z'.  *)
(* A timestamp read back from the table stands for the instant written.    *)
(* Keys are numbers in upstream order; 0 is the key '0'.                   *)
(***************************************************************************)
Resources == {"Property", "Media"}
SentinelTimestamp == 0
SentinelKey == 0

StateRow(res, ts, key, n) ==
    [resource_name |-> res, last_timestamp |-> ts, last_key |-> key, records_processed |-> n]

Sentinel == [lastTimestamp |-> SentinelTimestamp, lastKey |-> SentinelKey, recordsProcessed |-> 0]

\* schema.sql: the table has a serial id as its only key, and one initial row.
InitialReplicationState == << StateRow("Property", SentinelTimestamp, SentinelKey, 0) >>

\* SELECT ... FROM replication_state WHERE resource_name = $1
SelectState(table, res) ==
    {i \in DOMAIN table : table[i].resource_name = res}

\* INSERT INTO replication_state (...) VALUES ($1, '1970-01-01T00:00:00Z', '0', 0)
InsertSentinel(table, res) ==
    Append(table, StateRow(res, SentinelTimestamp, SentinelKey, 0))

\* UPDATE replication_state SET ... WHERE resource_name = $4
UpdateState(table, res, ts, key, total) ==
    [i \in DOMAIN table |->
        IF table[i].resource_name = res THEN StateRow(res, ts, key, total) ELSE table[i]]

\* getReplicationState: the object returned for a row that was found.
StateOf(row) ==
    [lastTimestamp |-> row.last_timestamp, lastKey |-> row.last_key,
     recordsProcessed |-> row.records_processed]

\* updateReplicationState: totalRecordsProcessed from the SELECTed count.
TotalRecordsProcessed(found, current, delta) ==
    IF found /\ current # 0
      THEN IF delta > 0 THEN current + delta ELSE current
      ELSE delta

\* ---- the two accessors called concurrently, one SQL statement per step.
NumClients == 2
MaxDelta == 2
MaxStoreTs == 2

Clients == 1 .. NumClients
NoCall == [op |-> "none"]
NoRows == [found |-> FALSE]

StInit ==
    /\ stPc = [c \in Clients |-> "idle"]
    /\ stCall = [c \in Clients |-> NoCall]
    /\ stRows = [c \in Clients |-> NoRows]
    /\ stRet = [c \in Clients |-> NoCall]
    /\ stDelta = [r \in Resources |-> 0]

\* rows[0] of a SELECT without ORDER BY: any matching row may come first.
FirstRow(table, res) ==
    IF SelectState(table, res) = {}
      THEN {NoRows}
      ELSE {[found |-> TRUE, row |-> table[i]] : i \in SelectState(table, res)}

\* getReplicationState(res): the SELECT.
StGetSelect(c, res) ==
    /\ stPc[c] = "idle"
    /\ \E r \in FirstRow(replication_state, res) : stRows' = [stRows EXCEPT ![c] = r]
    /\ stCall' = [stCall EXCEPT ![c] = [op |-> "get", res |-> res]]
    /\ stPc' = [stPc EXCEPT ![c] = "get_selected"]
    /\ UNCHANGED <<replication_state, stRet, stDelta>>

\* getReplicationState(res): INSERT when no row was found, and return.
StGetReturn(c) ==
    /\ stPc[c] = "get_selected"
    /\ IF stRows[c].found
         THEN /\ stRet' = [stRet EXCEPT ![c] = StateOf(stRows[c].row)]
              /\ UNCHANGED replication_state
         ELSE /\ replication_state' = InsertSentinel(replication_state, stCall[c].res)
              /\ stRet' = [stRet EXCEPT ![c] = Sentinel]
    /\ stPc' = [stPc EXCEPT ![c] = "done"]
    /\ UNCHANGED <<stCall, stRows, stDelta>>

\* updateReplicationState(res, ts, key, delta): the SELECT of records_processed.
StUpdateSelect(c, res, ts, key, delta) ==
    /\ stPc[c] = "idle"
    /\ \E r \in FirstRow(replication_state, res) : stRows' = [stRows EXCEPT ![c] = r]
    /\ stCall' = [stCall EXCEPT ![c] =
                    [op |-> "update", res |-> res, ts |-> ts, key |-> key, delta |-> delta]]
    /\ stPc' = [stPc EXCEPT ![c] = "upd_selected"]
    /\ UNCHANGED <<replication_state, stRet, stDelta>>

\* updateReplicationState: the UPDATE.
StUpdateWrite(c) ==
    /\ stPc[c] = "upd_selected"
    /\ LET call == stCall[c]
           cur  == IF stRows[c].found THEN stRows[c].row.records_processed ELSE 0
       IN  /\ replication_state' =
                 UpdateState(replication_state, call.res, call.ts, call.key,
                             TotalRecordsProcessed(stRows[c].found, cur, call.delta))
           /\ stDelta' = [stDelta EXCEPT ![call.res] = @ + call.delta]
    /\ stPc' = [stPc EXCEPT ![c] = "done"]
    /\ UNCHANGED <<stCall, stRows, stRet>>

StGetStep == \E c \in Clients, res \in Resources : StGetSelect(c, res)
StGetDone == \E c \in Clients : StGetReturn(c)
StUpdateStep ==
    \E c \in Clients, res \in Resources, ts \in 1 .. MaxStoreTs, delta \in 1 .. MaxDelta :
        StUpdateSelect(c, res, ts, 1, delta)
StUpdateDone == \E c \in Clients : StUpdateWrite(c)


(***************************************************************************)
(* Upstream Property records and the listings table                        *)
(***************************************************************************)
NumKeys == 3
MaxTs == 2
ListingKeys == 1 .. NumKeys
Timestamps == 1 .. MaxTs

\* One upstream record; the payload fields stand for the ~60 mapped ones.
PropertyRecord(key, ts, city, price, features, mediaTs) ==
    [ListingKey |-> key, ModificationTimestamp |-> ts, City |-> city,
     ListPrice |-> price, InteriorFeatures |-> features,
     MediaChangeTimestamp |-> mediaTs]

\* JavaScript truthiness of a number-or-absent value.
Truthy(v) == v # Undef /\ v # Null /\ v # 0

ExtractFieldValue(v) == IF v # Undef THEN v ELSE Null

ExtractArrayField(v) == IF v = NoArray \/ v = NullArray \/ Len(v) = 0 THEN NullArray ELSE v

\* new Date(x): a time value, or Invalid Date when there is nothing to parse.
InvalidDate == -3
NewDate(v) == IF v = Undef \/ v = Null THEN InvalidDate ELSE v

\* mapProperty
MapProperty(property) ==
    [id |-> property.ListingKey,
     city |-> ExtractFieldValue(property.City),
     list_price |-> IF Truthy(ExtractFieldValue(property.ListPrice))
                      THEN property.ListPrice ELSE Null,
     interior_features |-> ExtractArrayField(property.InteriorFeatures),
     media_keys |-> << >>,
     preferred_media_key |-> Null,
     modification_timestamp |-> NewDate(property.ModificationTimestamp),
     raw |-> property]

\* A listings row: the mapped columns, and the columns upsertListing never names.
ListingRow(listing, std, created, updated) ==
    [id |-> listing.id, city |-> listing.city, list_price |-> listing.list_price,
     interior_features |-> listing.interior_features,
     media_keys |-> listing.media_keys,
     preferred_media_key |-> listing.preferred_media_key,
     modification_timestamp |-> listing.modification_timestamp,
     raw |-> listing.raw,
     standardized_address |-> std, created_at |-> created, updated_at |-> updated]

\* The statement is rejected: id is the NOT NULL primary key, and an Invalid Date
\* is no timestamp.
UpsertRejected(listing) ==
    \/ listing.id = Undef
    \/ listing.id = Null
    \/ listing.modification_timestamp = InvalidDate

\* Replace semantics: the old row is dropped and a fresh one inserted.
UpsertListingReplacing(table, listing, tnow) ==
    [i \in DOMAIN table \cup {listing.id} |->
        IF i = listing.id THEN ListingRow(listing, Null, tnow, tnow) ELSE table[i]]

\* upsertListing: INSERT ... ON CONFLICT (id) DO UPDATE SET <mapped columns>, updated_at = NOW()
UpsertListing(table, listing, tnow) ==
    [i \in DOMAIN table \cup {listing.id} |->
        IF i # listing.id THEN table[i]
        ELSE IF i \in DOMAIN table
               THEN ListingRow(listing, table[i].standardized_address, table[i].created_at, tnow)
               ELSE ListingRow(listing, Null, tnow, tnow)]

(***************************************************************************)
(* getPropertyBatch                                                        *)
(***************************************************************************)
\* A filter that drops the "ModificationTimestamp eq" conjunct.
AfterCursorLoose(r, ts, key) ==
    \/ r.ModificationTimestamp > ts
    \/ r.ListingKey > key

\* $filter: ModificationTimestamp gt ts or (ModificationTimestamp eq ts and ListingKey gt key)
AfterCursor(r, ts, key) ==
    \/ r.ModificationTimestamp > ts
    \/ (r.ModificationTimestamp = ts /\ r.ListingKey > key)

\* (timestamp, key) order of the upstream stream.
PairLE(t1, k1, t2, k2) == t1 < t2 \/ (t1 = t2 /\ k1 <= k2)

RecordLE(a, b) ==
    PairLE(a.ModificationTimestamp, a.ListingKey, b.ModificationTimestamp, b.ListingKey)

\* $orderby=ModificationTimestamp,ListingKey
RECURSIVE OrderBy(_)
OrderBy(S) ==
    IF S = {} THEN << >>
    ELSE LET first == CHOOSE r \in S : \A q \in S : RecordLE(r, q)
         IN  << first >> \o OrderBy(S \ {first})

\* $top
Top(seq, n) == SubSeq(seq, 1, Min(n, Len(seq)))

UpstreamMaxBatch == 3

\* getPropertyBatch(lastTimestamp, lastKey, batchSize): response.data.value
GetPropertyBatch(up, ts, key, size) ==
    Top(OrderBy({up[k] : k \in {j \in DOMAIN up : AfterCursor(up[j], ts, key)}}),
        Min(size, UpstreamMaxBatch))


(***************************************************************************)
(* replicateProperties                                                     *)
(***************************************************************************)
\* REPLICATION_BATCH_SIZE may be set below, at or above the cap of getPropertyBatch.
MaxBatchSize == 4
BatchSizes == 2 .. MaxBatchSize
ChunkSize == 2
MaxRecordsBudget == 2

\* updateReplicationState as one call, nobody else writing the table meanwhile.
UpdateReplicationState(table, res, ts, key, delta) ==
    LET rows  == SelectState(table, res)
        found == rows # {}
        cur   == IF found THEN table[CHOOSE i \in rows : TRUE].records_processed ELSE 0
    IN  UpdateState(table, res, ts, key, TotalRecordsProcessed(found, cur, delta))

\* getReplicationState as one call: <<returned state, table afterwards>>.
GetReplicationState(table, res) ==
    LET rows == SelectState(table, res)
    IN  IF rows = {}
          THEN [state |-> Sentinel, table |-> InsertSentinel(table, res)]
          ELSE [state |-> StateOf(table[CHOOSE i \in rows : TRUE]), table |-> table]

RpOff ==
    [pc |-> "off", lastProcessedTimestamp |-> Null, lastProcessedKey |-> Null,
     totalProcessed |-> 0, currentBatchSize |-> 0, items |-> << >>, count |-> 0,
     results |-> << >>, chunkStart |-> 1, batchProcessed |-> 0,
     newTimestamp |-> Null, newKey |-> Null]

\* The pages of a run are counted up to MaxPages.
MaxPages == 3
NoHist ==
    [start |-> Sentinel, failed |-> FALSE, pages |-> 0, before |-> Sentinel, touched |-> {}]

\* The indexes of the chunk being processed: items.slice(i, i + chunkSize).
ChunkOf(r) == r.chunkStart .. Min(r.chunkStart + ChunkSize - 1, r.count)

\* successResults[0]: the first successful result of the chunk.
FirstSuccessful(succ) == CHOOSE i \in succ : \A j \in succ : i <= j

\* successResults[successResults.length - 1]: Promise.all keeps the order of the chunk.
LastSuccessful(succ) == CHOOSE i \in succ : \A j \in succ : j <= i

\* "If we received fewer records than requested, we're done"
EndOfStream(count, requested) == count < requested

\* A non-empty string: what `newTimestamp && newKey` tests.
Present(v) == v # Undef /\ v # Null

\* const { lastTimestamp, lastKey } = await getReplicationState('Property')
RpStart ==
    /\ rp.pc = "off"
    /\ LET got == GetReplicationState(replication_state, "Property")
       IN  /\ replication_state' = got.table
           /\ rp' = [RpOff EXCEPT !.pc = "loop",
                                  !.lastProcessedTimestamp = got.state.lastTimestamp,
                                  !.lastProcessedKey = got.state.lastKey]
           /\ rpHist' = [NoHist EXCEPT !.start = got.state, !.before = got.state]
    /\ UNCHANGED <<now, listings, listing_media, envVars, cy, mdVars>>

\* Top of the while loop: the budget check and getPropertyBatch.
RpFetch(fetched) ==
    /\ rp.pc = "loop"
    /\ IF maxRecords > 0 /\ rp.totalProcessed >= maxRecords
         THEN rp' = [rp EXCEPT !.pc = "returned"]
         ELSE LET size  == IF maxRecords > 0
                             THEN Min(batchSize, maxRecords - rp.totalProcessed)
                             ELSE batchSize
                  items == GetPropertyBatch(upstream, rp.lastProcessedTimestamp,
                                            rp.lastProcessedKey, size)
              IN  IF ~fetched
                    THEN rp' = [rp EXCEPT !.pc = "failed"]
                    ELSE rp' = [rp EXCEPT
                                  !.pc = IF Len(items) = 0 THEN "returned" ELSE "chunk",
                                  !.currentBatchSize = size,
                                  !.items = items,
                                  !.count = Len(items),
                                  !.results = [i \in 1 .. Len(items) |-> "none"],
                                  !.chunkStart = 1,
                                  !.batchProcessed = 0,
                                  !.newTimestamp = Null,
                                  !.newKey = Null]
    /\ rpHist' = [rpHist EXCEPT !.pages = IF rp'.pc = "chunk" THEN Min(@ + 1, MaxPages) ELSE @]
    /\ UNCHANGED <<now, dbVars, envVars, cy, mdVars>>

\* One property of the chunk: mapProperty, upsertListing, and its result object.
RpUpsert(i, dbOk) ==
    /\ rp.pc = "chunk"
    /\ i \in ChunkOf(rp)
    /\ rp.results[i] = "none"
    /\ LET listing == MapProperty(rp.items[i])
       IN  IF dbOk /\ ~UpsertRejected(listing)
             THEN /\ listings' = UpsertListing(listings, listing, now)
                  /\ rp' = [rp EXCEPT !.results[i] = "ok"]
                  /\ rpHist' = [rpHist EXCEPT !.touched = @ \cup {listing.id}]
             ELSE /\ rp' = [rp EXCEPT !.results[i] = "fail"]
                  /\ rpHist' = [rpHist EXCEPT !.failed = TRUE]
                  /\ UNCHANGED listings
    /\ UNCHANGED <<now, replication_state, listing_media, envVars, cy, mdVars>>

\* After Promise.all of the chunk: count the successes, remember the last one.
RpChunkEnd ==
    /\ rp.pc = "chunk"
    /\ \A i \in ChunkOf(rp) : rp.results[i] # "none"
    /\ LET succ == {i \in ChunkOf(rp) : rp.results[i] = "ok"}
           last == LastSuccessful(succ)
       IN  rp' = [rp EXCEPT
                    !.batchProcessed = @ + Cardinality(succ),
                    !.newTimestamp = IF succ # {} THEN rp.items[last].ModificationTimestamp ELSE @,
                    !.newKey = IF succ # {} THEN rp.items[last].ListingKey ELSE @,
                    !.chunkStart = @ + ChunkSize,
                    !.pc = IF rp.chunkStart + ChunkSize > rp.count THEN "page_end" ELSE "chunk"]
    /\ UNCHANGED <<now, dbVars, envVars, cy, rpHist, mdVars>>

\* After the chunks of the page: the checkpoint, the totals, the end-of-stream test.
RpPageEnd ==
    /\ rp.pc = "page_end"
    /\ LET advance == rp.batchProcessed > 0 /\ Present(rp.newTimestamp) /\ Present(rp.newKey)
       IN  /\ replication_state' =
                 IF advance
                   THEN UpdateReplicationState(replication_state, "Property",
                                               rp.newTimestamp, rp.newKey, rp.batchProcessed)
                   ELSE replication_state
           /\ rp' = [rp EXCEPT
                       !.lastProcessedTimestamp = IF advance THEN rp.newTimestamp ELSE @,
                       !.lastProcessedKey = IF advance THEN rp.newKey ELSE @,
                       !.totalProcessed = @ + rp.batchProcessed,
                       !.pc = IF EndOfStream(rp.count, rp.currentBatchSize)
                                THEN "returned" ELSE "loop"]
    /\ rpHist' = [rpHist EXCEPT
                    !.before = GetReplicationState(replication_state, "Property").state]
    /\ UNCHANGED <<now, listings, listing_media, envVars, cy, mdVars>>

\* replicateProperties has returned or thrown, and may be called again.
RpReturn ==
    /\ rp.pc \in {"returned", "failed"}
    /\ rp' = RpOff
    /\ UNCHANGED <<now, dbVars, envVars, cy, rpHist, mdVars>>

(***************************************************************************)
(* Upstream Media items and the listing_media table                        *)
(***************************************************************************)
MaxItems == 3

MediaItem(key, preferred) == [MediaKey |-> key, PreferredPhotoYN |-> preferred]

\* The media_key of the n-th item of listing k.
MediaKeyOf(k, n) == 10 * k + n

\* A listing_media row: the columns upsertMedia is given, and the two it is not.
MediaRow(media, created, updated) ==
    [media_key |-> media.media_key, listing_id |-> media.listing_id,
     is_preferred |-> media.is_preferred, created_at |-> created, updated_at |-> updated]

\* mediaData as processMediaItem and updateMediaForProperties build it.
MediaData(item, listingId) ==
    [media_key |-> item.MediaKey, listing_id |-> listingId,
     is_preferred |-> (item.PreferredPhotoYN = TRUE)]

\* listing_id TEXT NOT NULL REFERENCES listings(id)
UpsertMediaRejected(media, parents) == media.listing_id \notin DOMAIN parents

\* upsertMedia: INSERT ... ON CONFLICT (media_key) DO UPDATE SET <fields>, updated_at = NOW()
UpsertMedia(table, media, tnow) ==
    [m \in DOMAIN table \cup {media.media_key} |->
        IF m # media.media_key THEN table[m]
        ELSE IF m \in DOMAIN table THEN MediaRow(media, table[m].created_at, tnow)
             ELSE MediaRow(media, tnow, tnow)]

\* A lookup that finds every id.
IsListingInDatabaseAlways(table, listingId) == TRUE

\* isListingInDatabase: SELECT 1 FROM listings WHERE id = $1 LIMIT 1
IsListingInDatabase(table, listingId) == listingId \in DOMAIN table

\* getPropertyMedia for one id: its items, or [] when the request failed.
GetPropertyMedia(media, id, ok) ==
    IF ok /\ id \in DOMAIN media THEN media[id] ELSE << >>

\* The elements of a sequence.
Range(seq) == {seq[n] : n \in DOMAIN seq}

\* getMediaBatch: the ids of propertyIds with at least one item, and their items;
\* okIds are the ids whose request went through.
GetMediaBatch(media, propertyIds, okIds) ==
    LET got(id) == GetPropertyMedia(media, id, id \in okIds)
        with    == {id \in Range(propertyIds) : Len(got(id)) > 0}
    IN  [id \in with |-> got(id)]

\* ORDER BY id over a set of ids.
RECURSIVE SortIds(_)
SortIds(S) ==
    IF S = {} THEN << >>
    ELSE LET first == CHOOSE k \in S : \A j \in S : k <= j
         IN  << first >> \o SortIds(S \ {first})

\* items.slice(from - 1, from - 1 + n), 1-based
Slice(seq, from, n) == SubSeq(seq, from, Min(from + n - 1, Len(seq)))

\* mediaItems.find(item => item.PreferredPhotoYN === true), else the first item
PreferredOf(items) ==
    LET flagged == {n \in DOMAIN items : items[n].PreferredPhotoYN = TRUE}
    IN  IF flagged # {}
          THEN items[CHOOSE n \in flagged : \A j \in flagged : n <= j].MediaKey
          ELSE IF Len(items) > 0 THEN items[1].MediaKey ELSE Null

\* a || b on media keys
OrElse(a, b) == IF a # Null /\ a # Undef THEN a ELSE b

\* UPDATE listings SET media_keys = $1, preferred_media_key = $2 [, updated_at = NOW()]
\* WHERE id = $3, for every id of ids
SetMediaKeys(table, ids, keys, pref, touch, tnow) ==
    [i \in DOMAIN table |->
        IF i \in ids
          THEN [table[i] EXCEPT !.media_keys = keys[i],
                                !.preferred_media_key = pref[i],
                                !.updated_at = IF touch THEN tnow ELSE @]
          ELSE table[i]]

NoTries == [checks |-> 0, upserts |-> 0]

\* The history of one media item, with one more lookup and perhaps one more upsert.
Tried(hist, item, looked, upserted) ==
    LET old == IF item \in DOMAIN hist THEN hist[item] ELSE NoTries
    IN  [t \in DOMAIN hist \cup {item} |->
           IF t = item
             THEN [checks  |-> old.checks + (IF looked THEN 1 ELSE 0),
                   upserts |-> old.upserts + (IF upserted THEN 1 ELSE 0)]
             ELSE hist[t]]

MdOff ==
    [pc |-> "off", propertyIds |-> << >>, offset |-> 0, totalPropertiesProcessed |-> 0,
     page |-> << >>, i |-> 1, mediaByProperty |-> << >>, mediaKeys |-> << >>,
     preferred |-> << >>, tasks |-> {}, batches |-> << >>,
     totalMediaProcessed |-> 0, listingsWithMedia |-> 0, fetched |-> << >>]

\* getMediaBatch takes its ids BATCH_SIZE at a time and, within these, CONCURRENCY
\* at a time: the getPropertyMedia calls of one such slice are awaited together.
BATCH_SIZE == 5
CONCURRENCY == 3

ConcurrentBatches(propertyIds) ==
    {Slice(Slice(propertyIds, i, BATCH_SIZE), j, CONCURRENCY) :
        i \in {n \in 1 .. Len(propertyIds) : n % BATCH_SIZE = 1},
        j \in {n \in 1 .. BATCH_SIZE : n % CONCURRENCY = 1}}

(***************************************************************************)
(* replicateMedia and processMediaItem                                     *)
(***************************************************************************)
PageLimit == 3
MaxProperties == 4
PropertyBatchSize == 2

\* replicateMedia is entered: the counters are zero and the first page is due.
RmEntered == [MdOff EXCEPT !.pc = "rm_page"]

\* Top of the while loop: SELECT id FROM listings ORDER BY id LIMIT $1 OFFSET $2
RmPage ==
    /\ md.pc = "rm_page"
    /\ LET ids  == SortIds(DOMAIN listings)
           page == Slice(ids, md.offset + 1, PageLimit)
       IN  md' = IF md.totalPropertiesProcessed >= MaxProperties \/ Len(page) = 0
                   THEN [md EXCEPT !.pc = "returned"]
                   ELSE [md EXCEPT !.pc = "rm_batch", !.page = page, !.i = 1]
    /\ UNCHANGED <<now, dbVars, envVars, runVars, mdTried>>

\* The for loop over the page: getMediaBatch for the next ids and the bookkeeping
\* before the items are processed; after the last batch, the page counters.
RmFetch(failed) ==
    /\ md.pc = "rm_batch"
    /\ IF md.i > Len(md.page)
         THEN /\ failed = {}
              /\ md' = [md EXCEPT !.pc = "rm_page",
                                  !.offset = @ + Len(md.page),
                                  !.totalPropertiesProcessed = @ + Len(md.page)]
         ELSE LET batchIds == Slice(md.page, md.i, PropertyBatchSize)
                  got      == GetMediaBatch(upstreamMedia, batchIds, Range(batchIds) \ failed)
              IN  /\ failed \subseteq Range(batchIds)
                  /\ md' = [md EXCEPT
                              !.pc = "rm_items",
                              !.mediaByProperty = got,
                              !.mediaKeys = [id \in DOMAIN got |-> << >>],
                              !.preferred = [id \in DOMAIN got |-> PreferredOf(got[id])],
                              !.tasks = {t \in (DOMAIN got) \X (1 .. MaxItems) :
                                            t[2] <= Len(got[t[1]])},
                              !.listingsWithMedia = @ + Cardinality(DOMAIN got),
                              !.fetched = [id \in Range(batchIds) |->
                                             IF id \in failed THEN "empty" ELSE "data"]
                                          @@ @]
    /\ UNCHANGED <<now, dbVars, envVars, runVars, mdTried>>

\* processMediaItem for one queued item, and the .then() that records its key.
RmItem(t, dbOk) ==
    /\ md.pc = "rm_items"
    /\ t \in md.tasks
    /\ LET id      == t[1]
           item    == md.mediaByProperty[id][t[2]]
           media   == MediaData(item, id)
           exists  == IsListingInDatabase(listings, id)
           success == exists /\ dbOk /\ ~UpsertMediaRejected(media, listings)
       IN  /\ mdTried' = Tried(mdTried, <<id, item.MediaKey>>, TRUE, exists)
           /\ listing_media' = IF success THEN UpsertMedia(listing_media, media, now)
                               ELSE listing_media
           /\ md' = [md EXCEPT
                       !.tasks = @ \ {t},
                       !.mediaKeys[id] = IF success THEN Append(@, item.MediaKey) ELSE @,
                       !.totalMediaProcessed = IF success THEN @ + 1 ELSE @]
    /\ UNCHANGED <<now, replication_state, listings, envVars, runVars>>

\* After Promise.all of the items: UPDATE listings for every property that got a
\* key; an UPDATE that fails is logged and skipped.
RmRelink(failed) ==
    /\ md.pc = "rm_items"
    /\ md.tasks = {}
    /\ LET ids == {id \in DOMAIN md.mediaKeys : Len(md.mediaKeys[id]) > 0}
           pref == [id \in ids |-> OrElse(md.preferred[id], md.mediaKeys[id][1])]
       IN  /\ failed \subseteq ids
           /\ listings' = SetMediaKeys(listings, ids \ failed, md.mediaKeys, pref, FALSE, now)
    /\ md' = [md EXCEPT !.pc = "rm_batch", !.i = @ + PropertyBatchSize]
    /\ UNCHANGED <<now, replication_state, listing_media, envVars, runVars, mdTried>>

(***************************************************************************)
(* updateMediaForProperties                                                *)
(***************************************************************************)
UpdateBatchSize == 2
ItemBatchSize == 2

\* The item batches of a property: mediaItems.slice(j, j + MEDIA_ITEM_BATCH_SIZE).
NumItemBatches(items) == (Len(items) + ItemBatchSize - 1) \div ItemBatchSize
ItemsOfBatch(items, b) ==
    {n \in DOMAIN items : (b - 1) * ItemBatchSize < n /\ n <= b * ItemBatchSize}

\* The MediaKeys of the items with the indexes idx, in item order.
RECURSIVE KeysOf(_, _)
KeysOf(items, idx) ==
    IF idx = {} THEN << >>
    ELSE LET n == CHOOSE j \in idx : \A q \in idx : j <= q
         IN  << items[n].MediaKey >> \o KeysOf(items, idx \ {n})

\* preferredMediaKey after the items idx were mapped: the last flagged one wins.
LastFlagged(items, idx, before) ==
    LET flagged == {n \in idx : items[n].PreferredPhotoYN = TRUE}
    IN  IF flagged = {} THEN before
        ELSE items[CHOOSE n \in flagged : \A j \in flagged : j <= n].MediaKey

NewBatch == [stage |-> "check", pending |-> {}, successCount |-> 0,
             success |-> FALSE, preferredMediaKey |-> Null]

\* updateMediaForProperties(propertyIds) is entered.
UmEntered(propertyIds) ==
    [MdOff EXCEPT !.pc = IF Len(propertyIds) = 0 THEN "returned" ELSE "um_batch",
                  !.propertyIds = propertyIds]

\* The for loop over propertyIds: getMediaBatch and one promise per item batch.
UmFetch(failed) ==
    /\ md.pc = "um_batch"
    /\ IF md.i > Len(md.propertyIds)
         THEN /\ failed = {}
              /\ md' = [md EXCEPT !.pc = "returned"]
         ELSE LET batchIds == Slice(md.propertyIds, md.i, UpdateBatchSize)
                  got      == GetMediaBatch(upstreamMedia, batchIds, Range(batchIds) \ failed)
                  tasks    == {t \in (DOMAIN got) \X (1 .. MaxItems) :
                                 t[2] <= NumItemBatches(got[t[1]])}
              IN  /\ failed \subseteq Range(batchIds)
                  /\ md' = [md EXCEPT
                              !.pc = "um_tasks",
                              !.mediaByProperty = got,
                              !.mediaKeys = [id \in DOMAIN got |-> << >>],
                              !.preferred = [id \in DOMAIN got |-> Null],
                              !.tasks = tasks,
                              !.batches = [t \in tasks |-> NewBatch],
                              !.fetched = [id \in Range(batchIds) |->
                                             IF id \in failed THEN "empty" ELSE "data"]
                                          @@ @]
    /\ UNCHANGED <<now, dbVars, envVars, runVars, mdTried>>

\* One item batch, from isListingInDatabase to the synchronous part of the map:
\* every item's key is pushed before its upsertMedia is awaited.
UmCheck(t) ==
    /\ md.pc = "um_tasks"
    /\ t \in md.tasks
    /\ md.batches[t].stage = "check"
    /\ LET id     == t[1]
           items  == md.mediaByProperty[id]
           idx    == ItemsOfBatch(items, t[2])
           exists == IsListingInDatabase(listings, id)
           looked == [it \in {<<id, items[n].MediaKey>> : n \in idx} |-> 1]
       IN  /\ mdTried' =
                 [it \in DOMAIN mdTried \cup DOMAIN looked |->
                    IF it \in DOMAIN looked
                      THEN Tried(mdTried, it, TRUE, FALSE)[it]
                      ELSE mdTried[it]]
           /\ md' = IF exists
                      THEN [md EXCEPT
                              !.batches[t].stage = "upserts",
                              !.batches[t].pending = idx,
                              !.mediaKeys[id] = @ \o KeysOf(items, idx),
                              !.preferred[id] = LastFlagged(items, idx, @)]
                      ELSE [md EXCEPT !.batches[t].stage = "done"]
    /\ UNCHANGED <<now, dbVars, envVars, runVars>>

\* One upsertMedia of an item batch; with the last one the batch's promise resolves.
UmUpsert(t, n, dbOk) ==
    /\ md.pc = "um_tasks"
    /\ t \in md.tasks
    /\ md.batches[t].stage = "upserts"
    /\ n \in md.batches[t].pending
    /\ LET id      == t[1]
           item    == md.mediaByProperty[id][n]
           media   == MediaData(item, id)
           success == dbOk /\ ~UpsertMediaRejected(media, listings)
           count   == md.batches[t].successCount + (IF success THEN 1 ELSE 0)
           last    == md.batches[t].pending = {n}
       IN  /\ mdTried' = Tried(mdTried, <<id, item.MediaKey>>, FALSE, TRUE)
           /\ listing_media' = IF success THEN UpsertMedia(listing_media, media, now)
                               ELSE listing_media
           /\ md' = [md EXCEPT
                       !.batches[t].pending = @ \ {n},
                       !.batches[t].successCount = count,
                       !.batches[t].stage = IF last THEN "done" ELSE @,
                       !.batches[t].success = last /\ count > 0,
                       !.batches[t].preferredMediaKey =
                          IF last /\ count > 0
                            THEN OrElse(md.preferred[id], md.mediaKeys[id][1])
                            ELSE @,
                       !.totalMediaProcessed = IF last THEN @ + count ELSE @]
    /\ UNCHANGED <<now, replication_state, listings, envVars, runVars>>

\* seq repeated n times: what n pushes of the same array leave behind.
RECURSIVE Repeat(_, _)
Repeat(seq, n) == IF n = 0 THEN << >> ELSE seq \o Repeat(seq, n - 1)

\* The first truthy preferredMediaKey among the successful batches, in promise order.
FirstPreferred(batches, id, succ) ==
    LET with == {b \in succ : batches[<<id, b>>].preferredMediaKey # Null}
    IN  IF with = {} THEN Null
        ELSE batches[<<id, CHOOSE b \in with : \A q \in with : b <= q>>].preferredMediaKey

\* After Promise.all of the item batches: resultsByProperty and the UPDATE of every
\* property with a successful batch; an UPDATE that fails is logged and skipped.
UmCollect(failed) ==
    /\ md.pc = "um_tasks"
    /\ \A t \in md.tasks : md.batches[t].stage = "done"
    /\ LET succ(id) == {b \in 1 .. MaxItems : <<id, b>> \in md.tasks /\ md.batches[<<id, b>>].success}
           ids  == {id \in DOMAIN md.mediaByProperty : succ(id) # {}}
           keys == [id \in ids |-> Repeat(md.mediaKeys[id], Cardinality(succ(id)))]
           pref == [id \in ids |-> OrElse(FirstPreferred(md.batches, id, succ(id)),
                                          IF Len(keys[id]) > 0 THEN keys[id][1] ELSE Null)]
       IN  /\ failed \subseteq ids
           /\ listings' = SetMediaKeys(listings, ids \ failed, keys, pref, TRUE, now)
           /\ md' = [md EXCEPT !.pc = "um_batch", !.i = @ + UpdateBatchSize,
                               !.listingsWithMedia = @ + Cardinality(ids),
                               !.tasks = {}, !.batches = << >>]
    /\ UNCHANGED <<now, replication_state, listing_media, envVars, runVars, mdTried>>

\* A caller other than the cycle enters replicateMedia.
MdCallReplicate ==
    /\ md.pc = "off"
    /\ md' = RmEntered
    /\ mdTried' = << >>
    /\ UNCHANGED <<now, dbVars, envVars, runVars>>

\* A caller other than the cycle enters updateMediaForProperties(propertyIds).
MdCallUpdate(propertyIds) ==
    /\ md.pc = "off"
    /\ md' = UmEntered(propertyIds)
    /\ mdTried' = << >>
    /\ UNCHANGED <<now, dbVars, envVars, runVars>>

\* The media function has returned to that caller.
MdReturn ==
    /\ md.pc = "returned"
    /\ md' = MdOff
    /\ UNCHANGED <<now, dbVars, envVars, runVars, mdTried>>

(***************************************************************************)
(* The replication cycle and its environment                               *)
(***************************************************************************)
MaxCycles == 2
MaxNow == 2

Modes == {"full", "incremental", "media-only"}

\* outcome: how the latest runOptimizedReplication ended; failed (history): whether
\* an error was thrown by the replication work of that cycle.
CyIdle == [pc |-> "idle", mode |-> "none", count |-> 0, outcome |-> "none", failed |-> FALSE]

\* runOptimizedReplication(mode), up to the choice of the branch.
CyStart(mode) ==
    /\ cy.pc = "idle"
    /\ replication_state' =
          GetReplicationState(GetReplicationState(replication_state, "Property").table,
                              "Media").table
    /\ cy' = [pc |-> IF mode = "media-only" THEN "media_only" ELSE "properties",
              mode |-> mode, count |-> cy.count + 1, outcome |-> "none", failed |-> FALSE]
    /\ rp' = RpOff
    /\ UNCHANGED <<now, listings, listing_media, envVars, rpHist, mdVars>>

\* getPropertiesWithMediaChanges: the ids whose media change timestamp in raw is
\* later than the Media watermark.
GetPropertiesWithMediaChanges(table, rows) ==
    LET since == GetReplicationState(table, "Media").state.lastTimestamp
    IN  {id \in DOMAIN rows :
            /\ rows[id].raw.MediaChangeTimestamp # Undef
            /\ rows[id].raw.MediaChangeTimestamp # Null
            /\ rows[id].raw.MediaChangeTimestamp > since}

\* replicateProperties returned: Full goes on to replicateMedia, Incremental only
\* when something was processed.
CyAfterProperties ==
    /\ cy.pc = "properties"
    /\ rp.pc = "returned"
    /\ IF cy.mode = "full" \/ rp.totalProcessed > 0
         THEN /\ cy' = [cy EXCEPT !.pc = "media"]
              /\ md' = RmEntered
              /\ mdTried' = << >>
         ELSE /\ cy' = [cy EXCEPT !.pc = "idle", !.outcome = "returned"]
              /\ UNCHANGED mdVars
    /\ UNCHANGED <<now, dbVars, envVars, rp, rpHist>>

\* replicateProperties threw: the cycle rethrows.
CyPropertiesFailedSwallowed ==
    /\ cy.pc = "properties"
    /\ rp.pc = "failed"
    /\ cy' = [cy EXCEPT !.pc = "idle", !.outcome = "returned"]
    /\ UNCHANGED <<now, dbVars, envVars, rp, rpHist, mdVars>>

CyPropertiesFailed ==
    /\ cy.pc = "properties"
    /\ rp.pc = "failed"
    /\ cy' = [cy EXCEPT !.pc = "idle", !.outcome = "threw", !.failed = TRUE]
    /\ UNCHANGED <<now, dbVars, envVars, rp, rpHist, mdVars>>

\* replicateMedia returned.
CyMediaDone ==
    /\ cy.pc = "media"
    /\ md.pc = "returned"
    /\ cy' = [cy EXCEPT !.pc = "idle", !.outcome = "returned"]
    /\ md' = MdOff
    /\ UNCHANGED <<now, dbVars, envVars, rp, rpHist, mdTried>>

\* Media-only: the candidates, and updateMediaForProperties when there are any; when
\* the query for the candidates fails, the error is logged and the cycle returns.
CyMediaOnly(ok) ==
    /\ cy.pc = "media_only"
    /\ LET ids == GetPropertiesWithMediaChanges(replication_state, listings)
       IN  IF ~ok
             THEN /\ cy' = [cy EXCEPT !.pc = "idle", !.outcome = "returned", !.failed = TRUE]
                  /\ UNCHANGED mdVars
             ELSE IF ids # {}
             THEN /\ cy' = [cy EXCEPT !.pc = "media_update"]
                  /\ md' = UmEntered(SortIds(ids))
                  /\ mdTried' = << >>
             ELSE /\ cy' = [cy EXCEPT !.pc = "idle", !.outcome = "returned"]
                  /\ UNCHANGED mdVars
    /\ UNCHANGED <<now, dbVars, envVars, rp, rpHist>>

\* updateReplicationState('Media', new Date().toISOString(), '0', mediaProcessed)
CyMediaOnlyDone ==
    /\ cy.pc = "media_update"
    /\ md.pc = "returned"
    /\ replication_state' =
          UpdateReplicationState(replication_state, "Media", now, SentinelKey,
                                 md.totalMediaProcessed)
    /\ cy' = [cy EXCEPT !.pc = "idle", !.outcome = "returned"]
    /\ md' = MdOff
    /\ UNCHANGED <<now, listings, listing_media, envVars, rp, rpHist, mdTried>>


\* The Property record of key k as upstream serves it.
UpstreamRecord(k, ts, mediaTs) == PropertyRecord(k, ts, 1, 100 + k, << 1 >>, mediaTs)

\* Upstream adds a listing or modifies one, and stamps it with the time of the change;
\* only a listing that has media can carry a media change timestamp.
UpstreamChange(k, withMedia) ==
    /\ cy.pc = "idle"
    /\ now > SentinelTimestamp
    /\ k \in DOMAIN upstream => upstream[k].ModificationTimestamp < now
    /\ withMedia => k \in DOMAIN upstreamMedia
    /\ upstream' = [j \in DOMAIN upstream \cup {k} |->
                      IF j = k THEN UpstreamRecord(k, now, IF withMedia THEN now ELSE Undef)
                      ELSE upstream[j]]
    /\ UNCHANGED <<now, dbVars, upstreamMedia, maxRecords, batchSize, runVars, mdVars>>

\* Upstream changes the media of a listing: its media change timestamp moves, its
\* ModificationTimestamp does not.
UpstreamMediaChange(k) ==
    /\ cy.pc = "idle"
    /\ k \in DOMAIN upstream \cap DOMAIN upstreamMedia
    /\ upstream[k].MediaChangeTimestamp < now
    /\ upstream' = [upstream EXCEPT ![k].MediaChangeTimestamp = now]
    /\ UNCHANGED <<now, dbVars, upstreamMedia, maxRecords, batchSize, runVars, mdVars>>

\* Upstream removes the last media item of a listing that has several, and moves the
\* listing's media change timestamp.
UpstreamMediaRemoved(k) ==
    /\ cy.pc = "idle"
    /\ k \in DOMAIN upstream \cap DOMAIN upstreamMedia
    /\ Len(upstreamMedia[k]) > 1
    /\ upstream[k].MediaChangeTimestamp < now
    /\ upstream' = [upstream EXCEPT ![k].MediaChangeTimestamp = now]
    /\ upstreamMedia' = [upstreamMedia EXCEPT ![k] = SubSeq(@, 1, Len(@) - 1)]
    /\ UNCHANGED <<now, dbVars, maxRecords, batchSize, runVars, mdVars>>

Tick ==
    /\ cy.pc = "idle"
    /\ now < MaxNow
    /\ now' = now + 1
    /\ UNCHANGED <<dbVars, envVars, runVars, mdVars>>

(***************************************************************************)
(* A record applied twice in a row, and the other writers of listings      *)
(***************************************************************************)
NoRow == [id |-> Null]

UsIdle == [pc |-> "idle", record |-> PropertyRecord(Undef, Undef, Undef, Undef, NoArray, Undef),
           once |-> NoRow, ticked |-> FALSE]

\* The row with the given id, or NoRow.
RowOf(table, id) == IF id \in DOMAIN table THEN table[id] ELSE NoRow

\* The statement of upsertListing with its outcome: a rejected one changes nothing.
ApplyRecord(table, record, tnow) ==
    IF UpsertRejected(MapProperty(record)) THEN table
    ELSE UpsertListing(table, MapProperty(record), tnow)

\* mapProperty and upsertListing on a record, for the first time.
UsFirst(record) ==
    /\ us.pc = "idle"
    /\ listings' = ApplyRecord(listings, record, now)
    /\ us' = [pc |-> "once", record |-> record,
              once |-> RowOf(listings', record.ListingKey), ticked |-> FALSE]
    /\ UNCHANGED now

\* The same record again, with no other statement on listings in between.
UsSecond ==
    /\ us.pc = "once"
    /\ listings' = ApplyRecord(listings, us.record, now)
    /\ us' = [us EXCEPT !.pc = "twice"]
    /\ UNCHANGED now

UsDone ==
    /\ us.pc = "twice"
    /\ us' = UsIdle
    /\ UNCHANGED <<now, listings>>

\* The clock moves on, also between the two statements.
UsTick ==
    /\ now < MaxNow
    /\ now' = now + 1
    /\ us' = [us EXCEPT !.ticked = (us.pc = "once")]
    /\ UNCHANGED listings

\* The address job: UPDATE listings SET standardized_address = $1 WHERE id = $2
Standardize(table, id) ==
    [i \in DOMAIN table |->
        IF i = id THEN [table[i] EXCEPT !.standardized_address = 1] ELSE table[i]]

\* Another writer between two replications: the address job, or the media phase
\* linking a key.
UsOtherWriter(id, media) ==
    /\ us.pc = "idle"
    /\ id \in DOMAIN listings
    /\ listings' = IF media
                     THEN SetMediaKeys(listings, {id}, [i \in {id} |-> << MediaKeyOf(id, 1) >>],
                                       [i \in {id} |-> MediaKeyOf(id, 1)], FALSE, now)
                     ELSE Standardize(listings, id)
    /\ UNCHANGED <<now, us>>

(***************************************************************************)
(* The request functions run inside execute(): getMetadata,                *)
(* getPropertyBatch and countProperties on propertyCircuit,                *)
(* getPropertyMedia and fetchMedia on mediaCircuit. The breaker modelled   *)
(* is the one of the first function called. A sleep is recorded by its     *)
(* length in milliseconds.                                                 *)
(***************************************************************************)
PropertyOps == {"getMetadata", "getPropertyBatch", "countProperties"}
MediaOps == {"getPropertyMedia", "fetchMedia"}
Ops == PropertyOps \cup MediaOps

\* MAX_RETRIES (API_MAX_RETRIES, 5 by default) is scaled down; each call makes at
\* most MaxRequests requests.
MaxRetries == 2
MaxRequests == 4
RetryDelayBase == 2000
MediaMaxRetries == 3
DefaultRetryAfter == 5

\* What axios hands back for one request: a response with its status and its
\* x-rate-limit-retry-after-seconds header (Undef when absent, else a whole number of
\* seconds), or an error without a response when the request timed out.
Response(status, retryAfter, timeout) ==
    [status |-> status, retryAfter |-> retryAfter, timeout |-> timeout]

RetryAfterValues == {Undef, 0, 3}

Responses ==
    {Response(200, Undef, FALSE), Response(404, Undef, FALSE), Response(500, Undef, FALSE),
     Response(Undef, Undef, TRUE)}
    \cup {Response(429, h, FALSE) : h \in RetryAfterValues}

\* parseInt(header, 10): NaN for an absent header.
NotANumber == -4
ParseInt(header) == IF header = Undef THEN NotANumber ELSE header

\* handleRateLimit: whether it sleeps and answers true, and for how long it sleeps.
RateLimitRetry(error, retryCount) == error.status = 429 /\ retryCount < MaxRetries

WaitTimeBackoffOnly(error, retryCount) == (2 ^ retryCount) * RetryDelayBase

WaitTime(error, retryCount) ==
    LET retryAfterSeconds == ParseInt(error.retryAfter)
    IN  IF retryAfterSeconds > 0
          THEN retryAfterSeconds * Milli
          ELSE (2 ^ retryCount) * RetryDelayBase

\* The steps a request function can take on a response.
Return(value, retryCount) ==
    [kind |-> "return", value |-> value, retryCount |-> retryCount, wait |-> Undef]
Retry(wait, retryCount) ==
    [kind |-> "retry", value |-> "none", retryCount |-> retryCount, wait |-> wait]
Throw(retryCount) ==
    [kind |-> "throw", value |-> "error", retryCount |-> retryCount, wait |-> Undef]

\* The loop body of getMetadata, getPropertyBatch and countProperties.
PropertyFn(retryCount, resp) ==
    IF resp.status = 200
      THEN Return("data", retryCount)
      ELSE IF RateLimitRetry(resp, retryCount)
             THEN Retry(WaitTime(resp, retryCount), retryCount + 1)
             ELSE Throw(retryCount)

\* parseInt(header || '5', 10) * 1000 of the media functions.
MediaRetryAfter(resp) ==
    ParseInt(IF resp.retryAfter = Undef THEN DefaultRetryAfter ELSE resp.retryAfter) * Milli

\* The loop body of getPropertyMedia.
GetPropertyMediaFn(retryCount, resp) ==
    IF resp.status = 200 THEN Return("data", retryCount)
    ELSE IF resp.timeout
      THEN IF retryCount + 1 >= MediaMaxRetries
             THEN Return("empty", retryCount + 1)
             ELSE Retry(RetryDelayBase * (retryCount + 1), retryCount + 1)
    ELSE IF resp.status = 429 THEN Retry(MediaRetryAfter(resp), retryCount)
    ELSE IF resp.status = 404 THEN Return("empty", retryCount)
    ELSE Throw(retryCount)

\* The loop body of fetchMedia.
FetchMediaFn(retryCount, resp) ==
    IF resp.status = 200 THEN Return("data", retryCount)
    ELSE IF resp.timeout
      THEN IF retryCount + 1 >= MediaMaxRetries
             THEN Throw(retryCount + 1)
             ELSE Retry(RetryDelayBase * (2 ^ retryCount), retryCount + 1)
    ELSE IF resp.status = 429 THEN Retry(MediaRetryAfter(resp), retryCount)
    ELSE Throw(retryCount)

RequestFn(op, retryCount, resp) ==
    IF op \in PropertyOps THEN PropertyFn(retryCount, resp)
    ELSE IF op = "getPropertyMedia" THEN GetPropertyMediaFn(retryCount, resp)
    ELSE FetchMediaFn(retryCount, resp)

\* execute(): the catch clause's test for a rate limit error.
IsRateLimitErrorNever(error) == FALSE

IsRateLimitError(error) == error.status = 429

\* What the caller of the request function gets: getPropertyMedia turns every
\* rejection, the breaker's included, into an empty list.
OutcomeRethrown(op, value) == value

Outcome(op, value) ==
    IF op = "getPropertyMedia" /\ value \in {"error", "circuit_open"} THEN "empty" ELSE value

\* tokens (history): the rate limiter tokens the call has acquired.
RqIdle ==
    [pc |-> "idle", op |-> "none", retryCount |-> 0, seen |-> << >>, waits |-> << >>,
     result |-> "none", tokens |-> 0]

\* The media functions await mediaRateLimiter.getToken() once, before execute(); the
\* property functions call no limiter.
TokensAcquired(op) == IF op \in MediaOps THEN 1 ELSE 0

SameCircuit(op1, op2) == (op1 \in PropertyOps) = (op2 \in PropertyOps)

\* A request function is called: execute() runs it or fails fast.
ApiCall(op) ==
    /\ rq.pc # "request"
    /\ rq.op = "none" \/ SameCircuit(rq.op, op)
    /\ CbEnter
    /\ rq' = IF cbState = "OPEN" /\ ~CbResetElapsed
               THEN [RqIdle EXCEPT !.pc = "done", !.op = op,
                                   !.tokens = TokensAcquired(op),
                                   !.result = Outcome(op, "circuit_open")]
               ELSE [RqIdle EXCEPT !.pc = "request", !.op = op,
                                   !.tokens = TokensAcquired(op)]
    /\ UNCHANGED now

\* The request in flight is answered: the function sleeps and asks again, returns
\* or throws, and execute() records what it sees.
ApiResponse(resp) ==
    /\ rq.pc = "request"
    /\ LET step == RequestFn(rq.op, rq.retryCount, resp)
       IN  /\ step.kind = "retry" => Len(rq.seen) + 1 < MaxRequests
           /\ rq' = [rq EXCEPT !.seen = Append(@, resp),
                               !.retryCount = step.retryCount,
                               !.waits = IF step.kind = "retry"
                                           THEN Append(@, step.wait) ELSE @,
                               !.pc = IF step.kind = "retry" THEN "request" ELSE "done",
                               !.result = Outcome(rq.op, step.value)]
           /\ CASE step.kind = "retry" -> UNCHANGED cbVars
                [] step.kind = "return" -> CbSuccess
                [] step.kind = "throw" ->
                      IF IsRateLimitError(resp) THEN CbRateLimited ELSE CbFailure
    /\ UNCHANGED now

\* getMediaBatch(propertyIds) is called on its own.
MbCall(propertyIds) ==
    /\ md.pc = "off"
    /\ rq.pc # "request"
    /\ Len(propertyIds) > 0
    /\ md' = [MdOff EXCEPT !.pc = "mb_call", !.propertyIds = propertyIds]
    /\ UNCHANGED <<now, cbVars, rq>>

\* Its next getPropertyMedia call begins.
MbRequest ==
    /\ md.pc = "mb_call"
    /\ ApiCall("getPropertyMedia")
    /\ md' = [md EXCEPT !.pc = "mb_await"]

\* The call has settled: the try block keeps what it resolved to, the catch block
\* makes a rejection an empty list.
MbSettled ==
    /\ md.pc = "mb_await"
    /\ rq.pc = "done"
    /\ LET propertyId == md.propertyIds[md.i]
           fetched    == md.fetched @@ (propertyId :> rq.result)
           last       == md.i = Len(md.propertyIds)
       IN  md' = [md EXCEPT
                    !.fetched = fetched,
                    !.i = @ + 1,
                    !.pc = IF last THEN "returned" ELSE "mb_call",
                    !.mediaByProperty =
                        IF last
                          THEN GetMediaBatch(upstreamMedia, md.propertyIds,
                                             {id \in DOMAIN fetched : fetched[id] = "data"})
                          ELSE @]
    /\ UNCHANGED <<now, cbVars, rq>>

(***************************************************************************)
(* The command line of run-optimized-replication.js and continuous mode    *)
(***************************************************************************)
MediaOnlyEvery == 4
MaxSyncCycles == 6

\* process.argv from index 2 on.
CommandLines ==
    {<< "--once" >>, << >>, << "--mode" >>, << "--mode", "bogus" >>}
    \cup {<< "--mode", mode >> : mode \in Modes \cup {"FULL"}}

ToLowerCase(str) == IF str = "FULL" THEN "full" ELSE str

\* The three branches of the entry code.
IsOnce(argv) == Len(argv) >= 1 /\ argv[1] = "--once"
IsMode(argv) == ~IsOnce(argv) /\ Len(argv) >= 2 /\ argv[1] = "--mode"
IsContinuous(argv) == ~IsOnce(argv) /\ ~IsMode(argv)

\* manual counts the replicateAll() calls that POST /replicate started and that have
\* not settled yet.
RunOff ==
    [pc |-> "off", argv |-> << >>, exit |-> Undef, modes |-> << >>, failures |-> 0,
     manual |-> 0]

\* The process has been started with argv.
Started(argv) == [RunOff EXCEPT !.pc = "start", !.argv = argv]

\* determineSyncMode: ok tells whether its reads of replication_state went through.
DetermineSyncMode(table, ok) ==
    LET propertyState == GetReplicationState(table, "Property")
        mediaState    == GetReplicationState(propertyState.table, "Media").state
    IN  IF ~ok THEN "incremental"
        ELSE IF /\ propertyState.state.lastTimestamp = SentinelTimestamp
                /\ propertyState.state.lastKey = SentinelKey
          THEN "full"
        ELSE IF mediaState.recordsProcessed % MediaOnlyEvery = 0 THEN "media-only"
        ELSE "incremental"

\* What determineSyncMode saw and chose.
Chosen(table, ok) ==
    LET propertyState == GetReplicationState(table, "Property").state
    IN  [mode |-> DetermineSyncMode(table, ok), read |-> ok,
         sentinel |-> /\ propertyState.lastTimestamp = SentinelTimestamp
                      /\ propertyState.lastKey = SentinelKey]

\* --once: runOptimizedReplication() with its default mode.
RunOnce ==
    /\ run.pc = "start"
    /\ IsOnce(run.argv)
    /\ CyStart("incremental")
    /\ run' = [run EXCEPT !.pc = "cycle"]

\* --mode <mode>: a mode that SYNC_MODES does not hold exits at once.
RunMode ==
    /\ run.pc = "start"
    /\ IsMode(run.argv)
    /\ LET mode == ToLowerCase(run.argv[2])
       IN  IF mode \in Modes
             THEN /\ CyStart(mode)
                  /\ run' = [run EXCEPT !.pc = "cycle"]
             ELSE /\ run' = [run EXCEPT !.pc = "exited", !.exit = 1]
                  /\ UNCHANGED <<now, dbVars, envVars, runVars, mdVars>>

\* Neither: runContinuousSync() is called.
RunContinuous ==
    /\ run.pc = "start"
    /\ IsContinuous(run.argv)
    /\ run' = [run EXCEPT !.pc = "determine"]
    /\ UNCHANGED <<now, dbVars, envVars, runVars, mdVars>>

\* runContinuousSync: determineSyncMode, then runOptimizedReplication(mode) up to
\* the choice of the branch.
RunDetermine(ok) ==
    /\ run.pc = "determine"
    /\ cy.count < MaxSyncCycles
    /\ CyStart(DetermineSyncMode(replication_state, ok))
    /\ run' = [run EXCEPT !.pc = "cycle",
                          !.modes = Append(@, Chosen(replication_state, ok))]

\* A failed cycle of continuous mode ends the process.
RunCycleEndExiting ==
    /\ run.pc = "cycle"
    /\ cy.pc = "idle"
    /\ cy.outcome # "none"
    /\ run' = IF IsContinuous(run.argv) /\ cy.outcome = "returned"
                THEN [run EXCEPT !.pc = "scheduled"]
                ELSE [run EXCEPT !.pc = "exited",
                                 !.exit = IF cy.outcome = "returned" THEN 0 ELSE 1,
                                 !.failures = @ + (IF cy.outcome = "threw" THEN 1 ELSE 0)]
    /\ UNCHANGED <<now, dbVars, envVars, runVars, mdVars>>

\* runOptimizedReplication settled: a one-shot run exits 0 when it resolved and 1
\* when it rejected; continuous mode sets the timer for the next call either way.
RunCycleEnd ==
    /\ run.pc = "cycle"
    /\ cy.pc = "idle"
    /\ cy.outcome # "none"
    /\ run' = IF IsContinuous(run.argv)
                THEN [run EXCEPT !.pc = "scheduled",
                                 !.failures = @ + (IF cy.outcome = "threw" THEN 1 ELSE 0)]
                ELSE [run EXCEPT !.pc = "exited",
                                 !.exit = IF cy.outcome = "returned" THEN 0 ELSE 1]
    /\ UNCHANGED <<now, dbVars, envVars, runVars, mdVars>>

\* The timer fires: runContinuousSync is called again.
RunTimer ==
    /\ run.pc = "scheduled"
    /\ run' = [run EXCEPT !.pc = "determine"]
    /\ UNCHANGED <<now, dbVars, envVars, runVars, mdVars>>

MaxManual == 2

\* POST /replicate: the handler answers replication_started and calls replicateAll()
\* without awaiting it; nothing in it looks at a run in progress.
PostReplicate ==
    /\ run.manual < MaxManual
    /\ run' = [run EXCEPT !.manual = @ + 1]
    /\ UNCHANGED <<now, dbVars, envVars, runVars, mdVars>>

\* A replicateAll() that POST /replicate started has resolved or rejected; the
\* handler logs either.
ManualSettled ==
    /\ run.manual > 0
    /\ run' = [run EXCEPT !.manual = @ - 1]
    /\ UNCHANGED <<now, dbVars, envVars, runVars, mdVars>>

(***************************************************************************)
(* Specifications                                                          *)
(***************************************************************************)
\* Everything at rest, the two environments left open.
InitBase ==
    /\ now = 0
    /\ CbInit
    /\ RlInit
    /\ replication_state = InitialReplicationState
    /\ StInit
    /\ listing_media = << >>
    /\ cy = CyIdle
    /\ rp = RpOff
    /\ rpHist = NoHist
    /\ md = MdOff
    /\ mdTried = << >>
    /\ faults = 0
    /\ us = UsIdle
    /\ rq = RqIdle
    /\ run = RunOff

Init ==
    /\ InitBase
    /\ listings = << >>
    /\ upstream = << >>
    /\ upstreamMedia = << >>
    /\ maxRecords = 0
    /\ batchSize = 2

otherVars == <<dbVars, stVars, envVars, runVars, mdVars, faults, us, run>>
breakerRest == <<rlVars, otherVars, rq>>

NextBreaker ==
    \/ CbEnter /\ UNCHANGED <<now, breakerRest>>
    \/ CbSuccess /\ UNCHANGED <<now, breakerRest>>
    \/ CbRateLimited /\ UNCHANGED <<now, breakerRest>>
    \/ CbFailure /\ UNCHANGED <<now, breakerRest>>
    \/ CbTick /\ UNCHANGED breakerRest

SpecBreaker == Init /\ [][NextBreaker]_vars

NextLimiter ==
    \/ RlCall /\ UNCHANGED <<otherVars, rq>>
    \/ RlTick /\ UNCHANGED <<otherVars, rq>>

apiRest == <<rlVars, otherVars>>

NextApi ==
    \/ \E op \in Ops : ApiCall(op) /\ UNCHANGED apiRest
    \/ \E resp \in Responses : ApiResponse(resp) /\ UNCHANGED apiRest
    \/ CbTick /\ UNCHANGED <<apiRest, rq>>

SpecApi == Init /\ [][NextApi]_vars

SpecLimiter == Init /\ [][NextLimiter]_vars

storeRest == <<now, cbVars, rlVars, listings, listing_media, envVars, runVars, mdVars, faults, us,
              rq, run>>

NextStore ==
    \/ StGetStep /\ UNCHANGED storeRest
    \/ StGetDone /\ UNCHANGED storeRest
    \/ StUpdateStep /\ UNCHANGED storeRest
    \/ StUpdateDone /\ UNCHANGED storeRest

SpecStore == Init /\ [][NextStore]_vars

\* Time passes whether or not anybody calls getToken again.
FairLimiter == SpecLimiter /\ WF_vars(RlTick /\ UNCHANGED <<otherVars, rq>>)

\* The Media resource during the replication cycles: listing 1 has two photos, the
\* second one flagged as preferred; listing 2 has one.
CycleMedia ==
    (1 :> << MediaItem(MediaKeyOf(1, 1), FALSE), MediaItem(MediaKeyOf(1, 2), TRUE) >>)
    @@ (2 :> << MediaItem(MediaKeyOf(2, 1), FALSE) >>)

\* getMediaBatch over the media of the replication cycles: listing 3 has none.
InitBatch ==
    /\ InitBase
    /\ listings = << >>
    /\ upstream = << >>
    /\ upstreamMedia = CycleMedia
    /\ maxRecords = 0
    /\ batchSize = 2

\* The batches asked for: two of the three listings.
BatchIds == {ids \in SUBSET (1 .. 3) : Cardinality(ids) = 2}

batchRest == <<rlVars, dbVars, stVars, envVars, runVars, mdTried, faults, us, run>>

NextBatch ==
    \/ \E ids \in BatchIds : MbCall(SortIds(ids)) /\ UNCHANGED batchRest
    \/ MbRequest /\ UNCHANGED batchRest
    \/ \E resp \in Responses : ApiResponse(resp) /\ UNCHANGED <<batchRest, md>>
    \/ MbSettled /\ UNCHANGED batchRest
    \/ MdReturn /\ UNCHANGED <<cbVars, rlVars, stVars, faults, us, rq, run>>
    \/ CbTick /\ UNCHANGED <<batchRest, md, rq>>

SpecBatch == InitBatch /\ [][NextBatch]_vars

InitCycles ==
    /\ InitBase
    /\ listings = << >>
    /\ upstream = << >>
    /\ upstreamMedia = CycleMedia
    /\ maxRecords \in {0, MaxRecordsBudget}
    /\ batchSize = 2

processRest == <<cbVars, rlVars, stVars, us, rq>>
restVars == <<processRest, run>>
quietVars == <<restVars, faults>>

\* The environment lets at most MaxFaults requests or statements fail.
MaxFaults == 1
Fault(happens) ==
    IF happens THEN faults < MaxFaults /\ faults' = faults + 1 ELSE UNCHANGED faults

\* Sequential cycles of runOptimizedReplication against a changing upstream.
Next ==
    \/ \E mode \in Modes : cy.count < MaxCycles /\ CyStart(mode) /\ UNCHANGED quietVars
    \/ cy.pc = "properties" /\ RpStart /\ UNCHANGED quietVars
    \/ \E fetched \in BOOLEAN : RpFetch(fetched) /\ Fault(~fetched) /\ UNCHANGED restVars
    \/ \E i \in 1 .. MaxBatchSize, dbOk \in BOOLEAN :
          RpUpsert(i, dbOk) /\ Fault(~dbOk) /\ UNCHANGED restVars
    \/ RpChunkEnd /\ UNCHANGED quietVars
    \/ RpPageEnd /\ UNCHANGED quietVars
    \/ CyAfterProperties /\ UNCHANGED quietVars
    \/ CyPropertiesFailed /\ UNCHANGED quietVars
    \/ RmPage /\ UNCHANGED quietVars
    \/ \E failed \in SUBSET ListingKeys :
          RmFetch(failed) /\ Fault(failed # {}) /\ UNCHANGED restVars
    \/ \E t \in md.tasks, dbOk \in BOOLEAN :
          RmItem(t, dbOk) /\ Fault(~dbOk) /\ UNCHANGED restVars
    \/ \E failed \in SUBSET ListingKeys :
          RmRelink(failed) /\ Fault(failed # {}) /\ UNCHANGED restVars
    \/ CyMediaDone /\ UNCHANGED quietVars
    \/ \E ok \in BOOLEAN : CyMediaOnly(ok) /\ Fault(~ok) /\ UNCHANGED restVars
    \/ \E failed \in SUBSET ListingKeys :
          UmFetch(failed) /\ Fault(failed # {}) /\ UNCHANGED restVars
    \/ \E t \in md.tasks : UmCheck(t) /\ UNCHANGED quietVars
    \/ \E t \in md.tasks, n \in 1 .. MaxItems, dbOk \in BOOLEAN :
          UmUpsert(t, n, dbOk) /\ Fault(~dbOk) /\ UNCHANGED restVars
    \/ \E failed \in SUBSET ListingKeys :
          UmCollect(failed) /\ Fault(failed # {}) /\ UNCHANGED restVars
    \/ CyMediaOnlyDone /\ UNCHANGED quietVars
    \/ \E k \in ListingKeys, withMedia \in BOOLEAN :
          UpstreamChange(k, withMedia) /\ UNCHANGED quietVars
    \/ Tick /\ UNCHANGED quietVars

Spec == InitCycles /\ [][Next]_vars

\* The cycles without a record budget, with an upstream that also changes media alone.
InitChange ==
    /\ InitBase
    /\ listings = << >>
    /\ upstream = << >>
    /\ upstreamMedia = CycleMedia
    /\ maxRecords = 0
    /\ batchSize = 2

NextChange ==
    \/ Next
    \/ \E k \in ListingKeys : UpstreamMediaChange(k) /\ UNCHANGED quietVars

SpecChange == InitChange /\ [][NextChange]_vars

\* A first Full cycle over an upstream of more listings than one media pass reads.
ManyListings == 7

InitFull ==
    /\ InitBase
    /\ listings = << >>
    /\ upstream = [k \in 1 .. ManyListings |-> UpstreamRecord(k, 1, Undef)]
    /\ upstreamMedia = CycleMedia
    /\ maxRecords = 0
    /\ batchSize = 2

NextFull ==
    \/ cy.count = 0 /\ CyStart("full") /\ UNCHANGED quietVars
    \/ cy.pc = "properties" /\ RpStart /\ UNCHANGED quietVars
    \/ \E fetched \in BOOLEAN : RpFetch(fetched) /\ Fault(~fetched) /\ UNCHANGED restVars
    \/ \E i \in 1 .. MaxBatchSize, dbOk \in BOOLEAN :
          RpUpsert(i, dbOk) /\ Fault(~dbOk) /\ UNCHANGED restVars
    \/ RpChunkEnd /\ UNCHANGED quietVars
    \/ RpPageEnd /\ UNCHANGED quietVars
    \/ CyAfterProperties /\ UNCHANGED quietVars
    \/ CyPropertiesFailed /\ UNCHANGED quietVars
    \/ RmPage /\ UNCHANGED quietVars
    \/ \E failed \in SUBSET ListingKeys :
          RmFetch(failed) /\ Fault(failed # {}) /\ UNCHANGED restVars
    \/ \E t \in md.tasks, dbOk \in BOOLEAN :
          RmItem(t, dbOk) /\ Fault(~dbOk) /\ UNCHANGED restVars
    \/ \E failed \in SUBSET ListingKeys :
          RmRelink(failed) /\ Fault(failed # {}) /\ UNCHANGED restVars
    \/ CyMediaDone /\ UNCHANGED quietVars

SpecFull == InitFull /\ [][NextFull]_vars

\* replicateProperties called again and again over a stream that stands still: the
\* records 1 .. n, stamped in every possible way.
StreamLen == 4
Stream(n, stamps) == [k \in 1 .. n |-> UpstreamRecord(k, stamps[k], Undef)]

InitProps ==
    /\ InitBase
    /\ listings = << >>
    /\ upstreamMedia = << >>
    /\ maxRecords \in {0, MaxRecordsBudget}
    /\ batchSize \in BatchSizes
    /\ \E n \in 0 .. StreamLen : \E stamps \in [1 .. n -> Timestamps] :
          upstream = Stream(n, stamps)

NextProps ==
    \/ RpStart /\ UNCHANGED quietVars
    \/ \E fetched \in BOOLEAN : RpFetch(fetched) /\ UNCHANGED quietVars
    \/ \E i \in 1 .. MaxBatchSize, dbOk \in BOOLEAN : RpUpsert(i, dbOk) /\ UNCHANGED quietVars
    \/ RpChunkEnd /\ UNCHANGED quietVars
    \/ RpPageEnd /\ UNCHANGED quietVars
    \/ RpReturn /\ UNCHANGED quietVars

SpecProps == InitProps /\ [][NextProps]_vars

\* One process run per command line, over an upstream of two listings that stands
\* still; their records carry a media change timestamp or not.
InitRun ==
    /\ InitBase
    /\ listings = << >>
    /\ upstreamMedia = CycleMedia
    /\ maxRecords = 0
    /\ batchSize = 2
    /\ \E withMedia \in BOOLEAN :
          upstream = [k \in 1 .. 2 |->
                        UpstreamRecord(k, 1, IF withMedia THEN 1 ELSE Undef)]

processQuiet == <<processRest, faults>>

RunStartStep ==
    \E argv \in CommandLines :
        /\ run.pc = "off"
        /\ run' = Started(argv)
        /\ UNCHANGED <<now, dbVars, envVars, runVars, mdVars, processQuiet>>
RunOnceStep == RunOnce /\ UNCHANGED processQuiet
RunModeStep == RunMode /\ UNCHANGED processQuiet
RunContinuousStep == RunContinuous /\ UNCHANGED processQuiet
RunDetermineStep == \E ok \in BOOLEAN : RunDetermine(ok) /\ Fault(~ok) /\ UNCHANGED processRest
RunCycleEndStep == RunCycleEnd /\ UNCHANGED processQuiet
RunTimerStep == RunTimer /\ UNCHANGED processQuiet

NextRun ==
    \/ RunStartStep
    \/ RunOnceStep
    \/ RunModeStep
    \/ RunContinuousStep
    \/ RunDetermineStep
    \/ RunCycleEndStep
    \/ RunTimerStep
    \/ cy.pc = "properties" /\ RpStart /\ UNCHANGED <<processQuiet, run>>
    \/ \E fetched \in BOOLEAN :
          RpFetch(fetched) /\ Fault(~fetched) /\ UNCHANGED <<processRest, run>>
    \/ \E i \in 1 .. MaxBatchSize, dbOk \in BOOLEAN :
          RpUpsert(i, dbOk) /\ Fault(~dbOk) /\ UNCHANGED <<processRest, run>>
    \/ RpChunkEnd /\ UNCHANGED <<processQuiet, run>>
    \/ RpPageEnd /\ UNCHANGED <<processQuiet, run>>
    \/ CyAfterProperties /\ UNCHANGED <<processQuiet, run>>
    \/ CyPropertiesFailed /\ UNCHANGED <<processQuiet, run>>
    \/ RmPage /\ UNCHANGED <<processQuiet, run>>
    \/ \E failed \in SUBSET ListingKeys :
          RmFetch(failed) /\ Fault(failed # {}) /\ UNCHANGED <<processRest, run>>
    \/ \E t \in md.tasks, dbOk \in BOOLEAN :
          RmItem(t, dbOk) /\ Fault(~dbOk) /\ UNCHANGED <<processRest, run>>
    \/ \E failed \in SUBSET ListingKeys :
          RmRelink(failed) /\ Fault(failed # {}) /\ UNCHANGED <<processRest, run>>
    \/ CyMediaDone /\ UNCHANGED <<processQuiet, run>>
    \/ \E ok \in BOOLEAN : CyMediaOnly(ok) /\ Fault(~ok) /\ UNCHANGED <<processRest, run>>
    \/ \E failed \in SUBSET ListingKeys :
          UmFetch(failed) /\ Fault(failed # {}) /\ UNCHANGED <<processRest, run>>
    \/ \E t \in md.tasks : UmCheck(t) /\ UNCHANGED <<processQuiet, run>>
    \/ \E t \in md.tasks, n \in 1 .. MaxItems, dbOk \in BOOLEAN :
          UmUpsert(t, n, dbOk) /\ Fault(~dbOk) /\ UNCHANGED <<processRest, run>>
    \/ \E failed \in SUBSET ListingKeys :
          UmCollect(failed) /\ Fault(failed # {}) /\ UNCHANGED <<processRest, run>>
    \/ CyMediaOnlyDone /\ UNCHANGED <<processQuiet, run>>
    \/ Tick /\ UNCHANGED <<processQuiet, run>>

SpecRun == InitRun /\ [][NextRun]_vars

\* The process keeps taking steps while it has one to take.
FairCycles == SpecRun /\ WF_vars(NextRun)

\* The process over an upstream that removes media items between two cycles.
NextShrink ==
    \/ NextRun
    \/ \E k \in ListingKeys :
          UpstreamMediaRemoved(k) /\ UNCHANGED <<processQuiet, run>>

SpecShrink == InitRun /\ [][NextShrink]_vars

FairShrink == SpecShrink /\ WF_vars(NextShrink)

\* Continuous mode beside the API server, whose POST /replicate may arrive at any
\* moment.
NextManual ==
    \/ NextRun
    \/ PostReplicate /\ UNCHANGED processQuiet
    \/ ManualSettled /\ UNCHANGED processQuiet

SpecManual == InitRun /\ [][NextManual]_vars

\* Node runs a settled promise's continuation and fires a timer that was set.
FairRun ==
    /\ SpecRun
    /\ WF_vars(RunCycleEndStep)
    /\ WF_vars(RunTimerStep)
    /\ WF_vars(RunDetermineStep)

\* The records applied twice: with and without a key, a timestamp, a city, a price
\* (absent, null, zero or positive) and a list of features (absent, empty or not).
UsRecords ==
    {PropertyRecord(key, ts, city, price, features, Undef) :
        key \in {1, Undef}, ts \in {1, Undef}, city \in {1, Undef},
        price \in {Undef, Null, 0, 5}, features \in {NoArray, << >>, << 1 >>}}

upsertRest == <<cbVars, rlVars, stVars, replication_state, listing_media, envVars,
                runVars, mdVars, faults, rq, run>>

NextUpsert ==
    \/ \E record \in UsRecords : UsFirst(record) /\ UNCHANGED upsertRest
    \/ UsSecond /\ UNCHANGED upsertRest
    \/ UsDone /\ UNCHANGED upsertRest
    \/ UsTick /\ UNCHANGED upsertRest
    \/ \E id \in ListingKeys, media \in BOOLEAN : UsOtherWriter(id, media) /\ UNCHANGED upsertRest

SpecUpsert == Init /\ [][NextUpsert]_vars

\* The media functions called on their own. Upstream has three listings with
\* three, one and two photos, the flagged one in the second item batch of listing 1;
\* any of them may be missing from listings.
DirectMedia ==
    (1 :> << MediaItem(MediaKeyOf(1, 1), FALSE), MediaItem(MediaKeyOf(1, 2), FALSE),
             MediaItem(MediaKeyOf(1, 3), TRUE) >>)
    @@ (2 :> << MediaItem(MediaKeyOf(2, 1), FALSE) >>)
    @@ (3 :> << MediaItem(MediaKeyOf(3, 1), FALSE), MediaItem(MediaKeyOf(3, 2), FALSE) >>)

\* listings after the records of the keys in S were replicated at time 0.
Replicated(S) ==
    [k \in S |-> ListingRow(MapProperty(UpstreamRecord(k, 1, 1)), Null, 0, 0)]

InitMedia ==
    /\ InitBase
    /\ upstream = [k \in 1 .. 3 |-> UpstreamRecord(k, 1, 1)]
    /\ upstreamMedia = DirectMedia
    /\ maxRecords = 0
    /\ batchSize = 2
    /\ \E S \in SUBSET (1 .. 3) : listings = Replicated(S)

NextMedia ==
    \/ MdCallReplicate /\ UNCHANGED quietVars
    \/ \E ids \in SUBSET (1 .. 3) : MdCallUpdate(SortIds(ids)) /\ UNCHANGED quietVars
    \/ MdReturn /\ UNCHANGED quietVars
    \/ RmPage /\ UNCHANGED quietVars
    \/ \E failed \in SUBSET ListingKeys :
          RmFetch(failed) /\ Fault(failed # {}) /\ UNCHANGED restVars
    \/ \E t \in md.tasks, dbOk \in BOOLEAN :
          RmItem(t, dbOk) /\ Fault(~dbOk) /\ UNCHANGED restVars
    \/ \E failed \in SUBSET ListingKeys :
          RmRelink(failed) /\ Fault(failed # {}) /\ UNCHANGED restVars
    \/ \E failed \in SUBSET ListingKeys :
          UmFetch(failed) /\ Fault(failed # {}) /\ UNCHANGED restVars
    \/ \E t \in md.tasks : UmCheck(t) /\ UNCHANGED quietVars
    \/ \E t \in md.tasks, n \in 1 .. MaxItems, dbOk \in BOOLEAN :
          UmUpsert(t, n, dbOk) /\ Fault(~dbOk) /\ UNCHANGED restVars
    \/ \E failed \in SUBSET ListingKeys :
          UmCollect(failed) /\ Fault(failed # {}) /\ UNCHANGED restVars

SpecMedia == InitMedia /\ [][NextMedia]_vars

(***************************************************************************)
(* Properties of the RateLimiter                                           *)
(***************************************************************************)
InQueue(c) == \E i \in 1 .. Len(pendingRequests) : pendingRequests[i] = c

\* C8: the token count stays within [0, R]; every release has consumed one whole
\* token (tokens = initial R + refills - one token per released caller); and the
\* callers released since any observation point taken T ms ago number at most
\* R + R*T/1000.
C8_RateBound ==
    /\ 0 <= tokens
    /\ tokens <= TokensPerSecond * Milli
    /\ tokens = TokensPerSecond * Milli + rlAdded - Milli * Cardinality(rlReleased)
    /\ (Cardinality(rlReleased) - rlMark[2]) * Milli
          <= TokensPerSecond * Milli + TokensPerSecond * (now - rlMark[1])

\* C8 witness: a caller was queued on an empty bucket and later released by a
\* refill, inside a window that started after time 0.
C8_Witness ==
    /\ rlMark[1] > 0
    /\ Cardinality(rlReleased) - rlMark[2] >= 2
    /\ \E c \in rlQueued : c \in rlReleased

\* C9: a queued caller is released once the time since the last refill has
\* accrued a token for every queued caller, with or without a further getToken.
RefillDue(c) ==
    /\ InQueue(c)
    /\ (now - lastRefill) * TokensPerSecond >= Milli * Len(pendingRequests)

C9_QueuedEventuallyReleased ==
    \A c \in Callers : RefillDue(c) ~> (c \in rlReleased)

(***************************************************************************)
(* Properties of the CircuitBreaker                                        *)
(***************************************************************************)
\* C10: a CLOSED breaker opens only at the Threshold-th counted failure in a row:
\* a success between failures restarts the count.
C10_OpensOnlyAfterThresholdInARow ==
    [][(cbState = "CLOSED" /\ cbState' = "OPEN") => cbRun' >= Threshold]_vars

\* C11: while the breaker is OPEN and at most ResetTimeout has passed since the
\* last recorded failure, no execute reaches the wrapped call (none is admitted);
\* once more than ResetTimeout has passed, an execute is never rejected: it is
\* admitted to the wrapped call and leaves the breaker HALF_OPEN.
C11_OpenRejectsUntilTimeout ==
    [][cbState = "OPEN" =>
          IF now <= lastFailureTime + ResetTimeout
            THEN /\ cbInFlight' <= cbInFlight
                 /\ cbLast' # "admitted"
                 /\ cbState' = "OPEN"
            ELSE /\ cbInFlight' > cbInFlight =>
                        cbState' = "HALF_OPEN" /\ cbLast' = "admitted"
                 /\ cbLast' = "rejected" => cbLast = "rejected"]_vars

C11_Witness ==
    /\ cbState = "HALF_OPEN"
    /\ cbLast = "admitted"
    /\ successCount = 0
    /\ now > lastFailureTime + ResetTimeout

\* C12: a HALF_OPEN breaker closes only at the SuccessesToClose-th success
\* recorded in its current half-open period (successes of an earlier period that
\* ended in a reopen do not count), and a counted failure in HALF_OPEN reopens it.
C12_ClosesOnlyAfterTrialSuccesses ==
    [][/\ (cbState = "HALF_OPEN" /\ cbState' = "CLOSED") => cbTrial' >= SuccessesToClose
       /\ (cbState = "HALF_OPEN" /\ failureCount' > failureCount) => cbState' = "OPEN"]_vars

\* C38: while the breaker is HALF_OPEN, no more trial calls are in flight at the same
\* time than the successes that close it.
C38_HalfOpenTrialsBounded ==
    cbState = "HALF_OPEN" => cbTrials <= SuccessesToClose

(***************************************************************************)
(* Properties of media reconciliation                                      *)
(***************************************************************************)
\* The step is the UPDATE of listings that ends the reconciliation of parent id.
Relinked(id) ==
    /\ md.pc \in {"rm_items", "um_tasks"}
    /\ md'.pc \in {"rm_batch", "um_batch"}
    /\ id \in DOMAIN listings
    /\ listings'[id] # listings[id]

\* C15: the preferred_media_key written for a parent is the key of the flagged item
\* of its fetched list, or of the list's first item when none is flagged, on both
\* paths and in whatever order the lookups and upserts complete.
C15_PreferredIsFlaggedElseFirst ==
    [][\A id \in ListingKeys :
          Relinked(id) =>
             listings'[id].preferred_media_key = PreferredOf(md.mediaByProperty[id])]_vars

\* The place of the item with the given key in a fetched list.
Pos(items, key) == CHOOSE n \in DOMAIN items : items[n].MediaKey = key

\* C16: the media_keys written for a parent are keys of stored items of its
\* fetched list, each once and in the order of the list, in whatever order the
\* lookups and upserts complete.
C16_KeysInArrivalOrder ==
    [][\A id \in ListingKeys :
          Relinked(id) =>
             LET keys  == listings'[id].media_keys
                 items == md.mediaByProperty[id]
             IN  /\ \A a \in DOMAIN keys : keys[a] \in DOMAIN listing_media
                 /\ \A a, b \in DOMAIN keys :
                       a < b => Pos(items, keys[a]) < Pos(items, keys[b])]_vars

\* The key names a stored media row of the listing.
StoredFor(key, id) ==
    key \in DOMAIN listing_media' /\ listing_media'[key].listing_id = id

\* C35: when a reconciliation writes a listing's media_keys and preferred_media_key,
\* every key of the list and the preferred key name a listing_media row of that
\* listing, and a preferred key that is not null is in the list.
C35_WrittenKeysAreStored ==
    [][\A id \in ListingKeys :
          Relinked(id) =>
             LET row == listings'[id]
             IN  /\ \A n \in DOMAIN row.media_keys : StoredFor(row.media_keys[n], id)
                 /\ row.preferred_media_key # Null =>
                       /\ StoredFor(row.preferred_media_key, id)
                       /\ row.preferred_media_key \in Range(row.media_keys)]_vars

\* C36: only the media reconciliation writes media_keys and preferred_media_key: any
\* other step, the upsert of a listing that is already stored included, leaves both
\* columns of every stored listing as they are.
C36_UpsertKeepsMediaColumns ==
    [][\A id \in DOMAIN listings :
          ~Relinked(id) =>
             /\ id \in DOMAIN listings'
             /\ listings'[id].media_keys = listings[id].media_keys
             /\ listings'[id].preferred_media_key = listings[id].preferred_media_key]_vars

\* The keys of the listing_media rows that reference the listing.
MediaRowsOf(id) == {key \in DOMAIN listing_media : listing_media[key].listing_id = id}

\* C37: when no fault happens, from some point on the media_keys of every stored
\* listing are the keys of the listing_media rows that reference it.
C37_MediaKeysConverge ==
    <>[](faults = 0 => \A id \in DOMAIN listings : Range(listings[id].media_keys) = MediaRowsOf(id))

\* The limit replicateMedia declares for its concurrent work, scaled like
\* PropertyBatchSize.
maxConcurrent == 2

\* The calls awaited together at this moment: the upsertListing calls of the chunk
\* that have not settled, the getPropertyMedia calls of the largest slice of the
\* getMediaBatch call that is due, the processMediaItem calls not yet settled.
EntityUpsertsInFlight ==
    IF rp.pc = "chunk" THEN Cardinality({i \in ChunkOf(rp) : rp.results[i] = "none"}) ELSE 0

MediaFetchesInFlight ==
    IF md.pc = "rm_batch" /\ md.i <= Len(md.page)
      THEN LET lens == {Len(b) : b \in ConcurrentBatches(Slice(md.page, md.i, PropertyBatchSize))}
           IN  CHOOSE n \in lens : \A m \in lens : m <= n
      ELSE 0

MediaUpsertsInFlight == IF md.pc = "rm_items" THEN Cardinality(md.tasks) ELSE 0

\* C40: at every moment of a cycle at most a chunk of entity upserts, at most
\* MEDIA_CONCURRENCY media fetches and at most a fixed number of media upserts,
\* whatever the number of media items of the batch, are in flight.
C40_ConcurrencyBounded ==
    /\ EntityUpsertsInFlight <= ChunkSize
    /\ MediaFetchesInFlight <= CONCURRENCY
    /\ MediaUpsertsInFlight <= maxConcurrent

\* C34: the media_keys of a listing hold each media key at most once, however many
\* media items the listing has.
C34_MediaKeysDistinct ==
    \A id \in DOMAIN listings :
        \A m, n \in DOMAIN listings[id].media_keys :
            listings[id].media_keys[m] = listings[id].media_keys[n] => m = n

(***************************************************************************)
(* Properties of the command line and of continuous mode                   *)
(***************************************************************************)
\* The choices n .. n + MediaOnlyEvery - 1 of determineSyncMode were all made on
\* reads that went through and found a Property checkpoint past the sentinel.
SteadyWindow(n) ==
    \A j \in n .. n + MediaOnlyEvery - 1 : run.modes[j].read /\ ~run.modes[j].sentinel

\* C17: in continuous mode a cycle chosen on a sentinel Property checkpoint is
\* Full, any other is Incremental or Media-only, and of any MediaOnlyEvery
\* cycles in a row chosen past the sentinel exactly one is Media-only.
C17_MediaOnlyEveryFourth ==
    /\ \A n \in DOMAIN run.modes :
          run.modes[n].read =>
             IF run.modes[n].sentinel THEN run.modes[n].mode = "full"
             ELSE run.modes[n].mode \in {"incremental", "media-only"}
    /\ \A n \in 1 .. Len(run.modes) - MediaOnlyEvery + 1 :
          SteadyWindow(n) =>
             Cardinality({j \in n .. n + MediaOnlyEvery - 1 :
                             run.modes[j].mode = "media-only"}) = 1

\* The n-th cycle of continuous mode has thrown.
Threw(n) ==
    /\ IsContinuous(run.argv)
    /\ run.pc = "cycle"
    /\ cy.count = n
    /\ cy.pc = "idle"
    /\ cy.outcome = "threw"

\* C18: in continuous mode a cycle that throws is followed by another cycle: the
\* process does not exit and the next runOptimizedReplication starts.
C18_FailedCycleIsFollowed ==
    \A n \in 1 .. MaxSyncCycles - 1 : Threw(n) ~> (cy.count > n /\ run.pc = "cycle")

C18_Witness ==
    /\ IsContinuous(run.argv)
    /\ run.failures > 0
    /\ run.pc = "cycle"
    /\ cy.outcome = "none"
    /\ run.exit = Undef

\* C19: a one-shot run exits with 0 exactly when no error was thrown by the
\* replication work of its cycle and with 1 otherwise, and a --mode value that is
\* not a mode exits with 1 before any cycle has started.
C19_ExitCodeTellsFailure ==
    run.pc = "exited" =>
        IF IsMode(run.argv) /\ ToLowerCase(run.argv[2]) \notin Modes
          THEN run.exit = 1 /\ cy.count = 0
          ELSE /\ cy.count = 1
               /\ run.exit = IF cy.failed THEN 1 ELSE 0

\* Continuous mode is between two cycles, n of them done, with a Property checkpoint
\* that has left the sentinel.
PastSentinelAfter(n) ==
    /\ IsContinuous(run.argv)
    /\ run.pc = "scheduled"
    /\ cy.count = n
    /\ LET propertyState == GetReplicationState(replication_state, "Property").state
       IN  \/ propertyState.lastTimestamp # SentinelTimestamp
           \/ propertyState.lastKey # SentinelKey

\* C32: in continuous mode, once the Property checkpoint has left the sentinel, an
\* Incremental cycle is selected and run within the cycles that follow, of which at
\* least MediaOnlyEvery remain.
C32_IncrementalEventuallyRuns ==
    \A n \in 1 .. MaxSyncCycles - MediaOnlyEvery :
        PastSentinelAfter(n) ~> (cy.count > n /\ cy.mode = "incremental")

\* The replication runs executing: the cycle of the replication process, from its
\* start until runOptimizedReplication settled, and the replicateAll() calls of
\* POST /replicate that have not settled.
RunsInProgress == (IF cy.pc # "idle" THEN 1 ELSE 0) + run.manual

\* C39: at most one replication run executes at any time: continuous mode starts
\* the next cycle only after the previous one settled, and a run started through
\* POST /replicate never overlaps a run in progress.
C39_OneRunAtATime == RunsInProgress <= 1

(***************************************************************************)
(* Properties of the request functions                                     *)
(***************************************************************************)
\* The step answers the request in flight, and LastSeen is the answer.
Answered == Len(rq'.seen) = Len(rq.seen) + 1
LastSeen == rq'.seen[Len(rq'.seen)]

\* C13: a 429 response to a request made inside execute() leaves failureCount,
\* lastFailureTime and the breaker's state as they were, in every state of the
\* breaker and however many 429s came before it.
C13_RateLimitNotCounted ==
    [][(Answered /\ LastSeen.status = 429) =>
          UNCHANGED <<failureCount, lastFailureTime, cbState>>]_vars

\* A half-open breaker saw getPropertyBatch give up after MaxRetries + 1 429s in a row.
C13_Witness ==
    /\ rq.op = "getPropertyBatch"
    /\ rq.pc = "done"
    /\ Len(rq.seen) = MaxRetries + 1
    /\ \A n \in 1 .. Len(rq.seen) : rq.seen[n].status = 429
    /\ cbLast = "429"
    /\ cbState = "HALF_OPEN"
    /\ failureCount >= Threshold

\* C14: in getPropertyBatch every sleep follows a 429; after a 429 whose header
\* gives s > 0 seconds the sleep is s seconds, after a 429 without the header the
\* sleep before retry n (from 0) is 2^n times RetryDelayBase; and a 429 followed
\* by a success ends the call with that page after one sleep and two requests.
C14_RetryAfterHonoured ==
    rq.op = "getPropertyBatch" =>
        /\ \A n \in 1 .. Len(rq.waits) :
              /\ rq.seen[n].status = 429
              /\ rq.seen[n].retryAfter > 0 => rq.waits[n] = rq.seen[n].retryAfter * Milli
              /\ rq.seen[n].retryAfter = Undef =>
                    rq.waits[n] = (2 ^ (n - 1)) * RetryDelayBase
        /\ (Len(rq.seen) >= 2 /\ rq.seen[1].status = 429 /\ rq.seen[2].status = 200) =>
              /\ rq.pc = "done"
              /\ rq.result = "data"
              /\ Len(rq.seen) = 2
              /\ Len(rq.waits) = 1

C14_Witness ==
    /\ rq.op = "getPropertyBatch"
    /\ rq.pc = "done"
    /\ rq.seen = << Response(429, 3, FALSE), Response(200, Undef, FALSE) >>
    /\ rq.waits = << 3 * Milli >>
    /\ rq.result = "data"
    /\ cbLast = "success"

\* The HTTP requests the call under way has issued so far.
Requests == Len(rq.seen) + (IF rq.pc = "request" THEN 1 ELSE 0)

\* The retry limit of each function: MAX_RETRIES retries after the first request in
\* the property functions, MAX_RETRIES (3) requests in the media functions.
AttemptLimit(op) == IF op \in PropertyOps THEN MaxRetries + 1 ELSE MediaMaxRetries

\* C21: a call of a request function issues at most as many HTTP requests as its
\* retry limit allows, whatever the answers are, runs of 429s and of timeouts included.
C21_AttemptsBounded ==
    rq.op \in Ops => Requests <= AttemptLimit(rq.op)

\* What getMediaBatch was given for the ids it has asked for.
BatchHas(id) == id \in DOMAIN md.mediaByProperty

HasMedia(id) == id \in DOMAIN upstreamMedia /\ Len(upstreamMedia[id]) > 0

\* C22: getPropertyMedia never rejects: after an exhausted run of timeouts, a 404, any
\* other error answer or a fast failure of the open breaker it resolves to an empty
\* list; and what getMediaBatch returns holds the media of every requested entity whose
\* request succeeded, and no entry for an entity that has no media or whose request
\* failed.
C22_MediaFetchNeverRejects ==
    /\ rq.op = "getPropertyMedia" /\ rq.pc = "done" =>
          /\ rq.result \in {"data", "empty"}
          /\ rq.result = "data" <=> (rq.seen # << >> /\ rq.seen[Len(rq.seen)].status = 200)
    /\ md.pc = "returned" /\ md.fetched # << >> =>
          \A id \in Range(md.propertyIds) :
              IF md.fetched[id] = "data" /\ HasMedia(id)
                THEN BatchHas(id) /\ md.mediaByProperty[id] = upstreamMedia[id]
                ELSE ~BatchHas(id)

\* One entity's request failed, another one's media is in the result.
C22_Witness ==
    /\ md.pc = "returned"
    /\ \E bad, good \in Range(md.propertyIds) :
          /\ HasMedia(bad) /\ md.fetched[bad] = "empty"
          /\ BatchHas(good)

\* The getPropertyMedia call that has just settled issued no request: the open
\* media breaker failed it fast.
RejectedByBreaker == rq.op = "getPropertyMedia" /\ rq.pc = "done" /\ rq.seen = << >>

\* C23: when the open media breaker rejects an entity's media fetch, the media phase
\* stays on that entity to fetch its media again after the cooldown; it neither goes on
\* as if the entity had no media nor ends.
C23_BreakerOpenIsRetried ==
    [][md.pc = "mb_await" /\ RejectedByBreaker /\ md' # md
          => md'.pc = "mb_call" /\ md'.i = md.i]_vars

\* The ids whose media the media pass under way has just fetched.
FetchedBatch == Range(Slice(md.page, md.i, PropertyBatchSize))

\* C33: when a Media-only cycle moves the Media watermark, every candidate whose media
\* fetch failed in that cycle, and whose media was therefore not reconciled, is still
\* selected by the scan of a later Media-only cycle.
C33_WatermarkKeepsUnreconciled ==
    [][cy.pc = "media_update" /\ cy'.pc = "idle"
          => \A id \in Range(md.propertyIds) :
                md.fetched[id] = "empty"
                   => id \in GetPropertiesWithMediaChanges(replication_state', listings')]_vars

\* C24: the media pass of an Incremental cycle fetches media only of the listings that
\* the entity pass of the same cycle upserted.
C24_IncrementalMediaOnlyTouched ==
    cy.mode = "incremental" /\ cy.pc = "media" /\ md.pc = "rm_items"
        => FetchedBatch \subseteq rpHist.touched

\* C25: when a Full cycle returns and nothing has failed in it, its media pass has
\* fetched the media of every listing in storage.
C25_FullCycleCoversEveryListing ==
    [][cy.mode = "full" /\ cy.pc = "media" /\ cy'.pc = "idle" /\ cy'.outcome = "returned"
          /\ ~cy'.failed /\ faults = 0
          => DOMAIN listings \subseteq DOMAIN md.fetched]_vars

\* Upstream has changed the media of a stored listing since the last media check, and
\* nothing else of it: the listing's ModificationTimestamp is the stored one.
MediaAloneChanged(id) ==
    /\ id \in DOMAIN upstream
    /\ upstream[id].ModificationTimestamp = listings[id].raw.ModificationTimestamp
    /\ upstream[id].MediaChangeTimestamp # listings[id].raw.MediaChangeTimestamp
    /\ upstream[id].MediaChangeTimestamp
          > GetReplicationState(replication_state, "Media").state.lastTimestamp

\* C26: a Media-only cycle that finds its candidates takes every stored listing whose
\* media change timestamp alone has moved upstream since the last media check.
C26_MediaChangeIsCandidate ==
    [][cy.pc = "media_only" /\ cy'.pc # "media_only" /\ ~cy'.failed
          => \A id \in DOMAIN listings :
                MediaAloneChanged(id) => id \in Range(md'.propertyIds)]_vars

\* C27: every HTTP request of a request function, retries included, has a rate limiter
\* token of its own: a call has issued no more requests than it has acquired tokens.
C27_EveryRequestHasToken ==
    rq.op \in Ops => Requests <= rq.tokens

\* replicateProperties has thrown inside a cycle that has not ended yet.
PageFetchFailed == cy.pc = "properties" /\ rp.pc = "failed"

\* C28: a failed page fetch writes nothing and ends replicateProperties with the error;
\* the stored Property checkpoint is then the cursor of the last page that advanced it,
\* nothing is written before the cycle ends, and the cycle ends by throwing.
C28_PageFailureAbortsCycle ==
    [][/\ rp.pc = "loop" /\ rp'.pc = "failed"
            => /\ replication_state' = replication_state
               /\ listings' = listings
               /\ cy'.pc = "properties"
       /\ PageFetchFailed
            => /\ GetReplicationState(replication_state, "Property").state.lastTimestamp
                     = rp.lastProcessedTimestamp
               /\ GetReplicationState(replication_state, "Property").state.lastKey
                     = rp.lastProcessedKey
               /\ replication_state' = replication_state
               /\ listings' = listings
               /\ cy' # cy => cy'.pc = "idle" /\ cy'.outcome = "threw" /\ cy'.failed]_vars

\* A cycle has thrown after a page fetch failed, with a checkpoint written by an
\* earlier page of the same run.
C28_Witness ==
    /\ rp.pc = "failed"
    /\ cy.pc = "idle" /\ cy.outcome = "threw"
    /\ rpHist.pages >= 1
    /\ GetReplicationState(replication_state, "Property").state # rpHist.start

\* C20: an answer that is a request timeout or a 404 never raises failureCount and
\* never opens the breaker, whichever request function received it.
C20_TimeoutAnd404NotCounted ==
    [][(Answered /\ (LastSeen.timeout \/ LastSeen.status = 404)) =>
          /\ failureCount' = failureCount
          /\ cbState' = "OPEN" => cbState = "OPEN"]_vars

(***************************************************************************)
(* Properties of the checkpoint store                                      *)
(***************************************************************************)
StQuiet(res) ==
    \A c \in Clients : ~(stPc[c] = "upd_selected" /\ stCall[c].res = res)

RowsOf(res) == SelectState(replication_state, res)

\* C4: once the updateReplicationState calls on 'Property' (whose row exists from
\* the schema on) have completed, in whatever interleaving, records_processed is
\* the initial 0 plus the sum of their deltas.
C4_NoDeltaLost ==
    StQuiet("Property") =>
        \A i \in RowsOf("Property") :
            replication_state[i].records_processed = stDelta["Property"]

\* C5: getReplicationState on a resource returns the sentinel while nothing has
\* advanced it, and leaves at most one replication_state row per resource.
C5_OneRowPerResource ==
    \A res \in Resources :
        /\ Cardinality(RowsOf(res)) <= 1
        /\ \A c \in Clients :
              (stPc[c] = "done" /\ stCall[c].op = "get" /\ stCall[c].res = res
                 /\ stDelta[res] = 0 /\ StQuiet(res))
              => (stRet[c] = Sentinel /\ Cardinality(RowsOf(res)) = 1)

(***************************************************************************)
(* Properties of the replication checkpoint                                *)
(***************************************************************************)
\* The stored state of a resource, as getReplicationState would return it.
Stored(res) == GetReplicationState(replication_state, res).state

\* The records of the current page whose upsert succeeded.
PageSuccesses == {i \in 1 .. rp.count : rp.results[i] = "ok"}

\* The greatest (ModificationTimestamp, ListingKey) among them.
GreatestSuccess ==
    rp.items[CHOOSE i \in PageSuccesses :
                \A j \in PageSuccesses : RecordLE(rp.items[j], rp.items[i])]

\* C1: no step of any cycle lowers the (last_timestamp, last_key) pair of a
\* replication_state row, timestamps compared first and keys second.
C1_CheckpointNeverRegresses ==
    [][\A n \in DOMAIN replication_state :
          /\ n \in DOMAIN replication_state'
          /\ PairLE(replication_state[n].last_timestamp, replication_state[n].last_key,
                    replication_state'[n].last_timestamp, replication_state'[n].last_key)]_vars

\* Both resources have advanced: Property in two pages of one run, to a later
\* timestamp with a smaller key than a record replicated before, and Media in a
\* Media-only cycle.
C1_Witness ==
    /\ Stored("Property").recordsProcessed >= NumKeys
    /\ Stored("Property").lastTimestamp > 1
    /\ \E k \in DOMAIN listings :
          /\ k > Stored("Property").lastKey
          /\ listings[k].raw.ModificationTimestamp < Stored("Property").lastTimestamp
    /\ Stored("Media").lastTimestamp > SentinelTimestamp

\* C2: the Property row changes only in the step that ends a page, when every
\* upsert of the page has completed; that step writes the greatest (timestamp, key)
\* among the records whose upsert succeeded, whatever the order of completion and
\* whichever records failed, and writes nothing when none succeeded.
C2_CheckpointIsGreatestSuccess ==
    [][/\ Stored("Property")' # Stored("Property") =>
             /\ rp.pc = "page_end"
             /\ \A i \in 1 .. rp.count : rp.results[i] # "none"
       /\ rp.pc = "page_end" /\ rp'.pc # "page_end" =>
             IF PageSuccesses = {}
               THEN Stored("Property")' = Stored("Property")
               ELSE /\ Stored("Property")'.lastTimestamp = GreatestSuccess.ModificationTimestamp
                    /\ Stored("Property")'.lastKey = GreatestSuccess.ListingKey]_vars

\* A page of two chunks was checkpointed although its last record failed.
C2_Witness ==
    /\ rp.pc \in {"loop", "returned"}
    /\ rp.count = 3
    /\ rp.results = << "ok", "ok", "fail" >>
    /\ rpHist.before # Stored("Property")
    /\ Stored("Property").lastKey = rp.items[2].ListingKey

\* The upstream record is in listings as upstream serves it.
Applied(r) ==
    /\ r.ListingKey \in DOMAIN listings
    /\ listings[r.ListingKey].raw = r

\* C29: every upstream record at or below the stored Property checkpoint has been
\* applied to listings.
C29_CheckpointBehindApplied ==
    \A n \in DOMAIN upstream :
        PairLE(upstream[n].ModificationTimestamp, upstream[n].ListingKey,
               Stored("Property").lastTimestamp, Stored("Property").lastKey)
            => Applied(upstream[n])

\* The upstream records after the cursor of the run.
BeyondCursor ==
    {n \in DOMAIN upstream :
        ~PairLE(upstream[n].ModificationTimestamp, upstream[n].ListingKey,
                rp.lastProcessedTimestamp, rp.lastProcessedKey)}

\* C30: whatever the configured batch size, above the upstream maximum or not, a run
\* without a record budget in which no upsert failed has returned only when upstream
\* holds no record after its cursor.
C30_ReturnsOnlyWhenDrained ==
    rp.pc = "returned" /\ maxRecords = 0 /\ ~rpHist.failed => BeyondCursor = {}

\* C31: every pass of the page loop of replicateProperties that does not end the loop
\* moves the cursor of the next fetch strictly forward, so no page is fetched twice in
\* one run.
C31_CursorMovesForward ==
    [][rp.pc = "page_end" /\ rp'.pc = "loop"
          => ~PairLE(rp'.lastProcessedTimestamp, rp'.lastProcessedKey,
                     rp.lastProcessedTimestamp, rp.lastProcessedKey)]_vars

\* C3: a run that started at the sentinel with no budget and saw no upsert fail
\* returns after a page shorter than the page size, with every upstream record in
\* listings, the checkpoint at the last record of the stream, and
\* records_processed equal to the number of upstream records.
C3_DrainFromSentinel ==
    (rp.pc = "returned" /\ rpHist.start = Sentinel /\ maxRecords = 0 /\ ~rpHist.failed) =>
        /\ rp.count < rp.currentBatchSize
        /\ \A k \in DOMAIN upstream : k \in DOMAIN listings /\ listings[k].raw = upstream[k]
        /\ Stored("Property").recordsProcessed = Cardinality(DOMAIN upstream)
        /\ \A k \in DOMAIN upstream :
              PairLE(upstream[k].ModificationTimestamp, k,
                     Stored("Property").lastTimestamp, Stored("Property").lastKey)
        /\ upstream # << >> =>
              \E k \in DOMAIN upstream :
                  /\ Stored("Property").lastTimestamp = upstream[k].ModificationTimestamp
                  /\ Stored("Property").lastKey = k

(***************************************************************************)
(* Properties of upsertListing                                             *)
(***************************************************************************)
\* The stored row of the record that was applied twice.
UsRow == RowOf(listings, us.record.ListingKey)

\* C7 as stated: after the second application the stored row of the record's id
\* is identical to the row after the first.
C7_TwiceEqualsOnce ==
    us.pc = "twice" => UsRow = us.once

\* C7: after the second application the stored row of the record's id is the row
\* after the first in every column except updated_at, which has not moved back;
\* a record that is rejected leaves the table as it was both times.
C7_TwiceEqualsOnceButUpdatedAt ==
    us.pc = "twice" =>
        IF us.once = NoRow THEN UsRow = NoRow
        ELSE /\ UsRow # NoRow
             /\ [UsRow EXCEPT !.updated_at = us.once.updated_at] = us.once
             /\ UsRow.updated_at >= us.once.updated_at

\* A record was applied twice, the clock moving in between, to a row that another
\* replication had inserted earlier and the address job had standardized.
C7_Witness ==
    /\ us.pc = "twice"
    /\ us.ticked
    /\ us.once # NoRow
    /\ us.once.standardized_address = 1
    /\ us.once.created_at < us.once.updated_at
    /\ UsRow.updated_at > us.once.updated_at
    /\ us.record.ListPrice = 0

(***************************************************************************)
(* Properties of the media functions                                       *)
(***************************************************************************)
\* The items of the current media run whose parent is not in listings.
Orphans == {it \in DOMAIN mdTried : it[1] \notin DOMAIN listings}

\* C6: every listing_media row references a row of listings; and for an item whose
\* parent is missing, processMediaItem and updateMediaForProperties look the
\* parent up once, attempt no upsertMedia, and do not come back to it in the run.
C6_NoMediaWithoutParent ==
    /\ \A m \in DOMAIN listing_media : listing_media[m].listing_id \in DOMAIN listings
    /\ \A it \in Orphans : mdTried[it].upserts = 0 /\ mdTried[it].checks <= 1

\* A run of updateMediaForProperties has returned that dropped the three photos of
\* a missing parent, in two item batches, and stored a photo of another listing.
C6_Witness ==
    /\ md.pc = "returned"
    /\ Cardinality(Orphans) = 3
    /\ \A it \in Orphans : mdTried[it].checks = 1
    /\ \E it \in DOMAIN mdTried : it[2] \in DOMAIN listing_media

====
